---- MODULE Spec2Model ----
(***************************************************************************)
(* A model of the DICOM store-and-forward pair of cplatt-iso/rust-dicom:   *)
(*   - the Sender's association (src/src/sender/dicom_client.rs),          *)
(*   - the Receiver's accept loop, permit semaphore and PDU receive loop   *)
(*     (src/src/receiver/receiver.rs).                                     *)
(* Three groups of variables, driven by four specifications:               *)
(*   SpecFrag  the Sender's dataset fragmentation loop on its own,         *)
(*   SpecRecv  the Receiver's connections and their permits,               *)
(*   Spec      one Sender association talking to the Receiver's handler,   *)
(*   SpecScp   one Sender association talking to a conformant SCP peer     *)
(*             that answers once per message, with any status, and may     *)
(*             abort.                                                      *)
(* Sizes are scaled: the 16000-byte PDV cap of the Sender is a value of    *)
(* 1..MaxChunk in Spec and SpecScp, where datasets carry real bytes.       *)
(***************************************************************************)
EXTENDS Integers, Sequences, FiniteSets, TLC

\* ------------------------------------------------------------------ bounds
\* longest dataset, in bytes, the fragmentation loop is run on
MaxLen == 8
\* largest PDV payload cap the fragmentation loop is run with
MaxCap == 3
\* the dataset length of the multi-PDV scenario (spec section 8, scenario 3)
ScenarioLen == 40000
\* simultaneous peers connecting to the Receiver
NumConns == 3
\* the Receiver's --max-connections
max_connections == 2
\* files sent on one association
MaxFiles == 2
\* distinct SOP classes among the files of one association
MaxSopClasses == 2
\* longest dataset, in bytes, sent on an association
MaxDataLen == 2
\* largest (scaled) PDV payload cap of an association
MaxChunk == 2
\* P-DATA-TF PDUs written by an association requestor other than the Sender
MaxPdus == 3
\* files the Sender indexes for one session
MaxIndexed == 3
\* distinct studies among them
MaxStudies == 3
\* the Sender's --threads
MaxThreads == 2
\* the latest reading of the clock during a session
MaxClock == 2
\* the width of an AE title field
AeFieldLen == 2
\* the presentation contexts of a request, the transfer syntaxes of a context
MaxRqContexts == 2
MaxRqSyntaxes == 2
\* the files under args.input
MaxObjs == 2
\* peers that connect to the Receiver at about the same time
MaxPeers == 3
\* worker threads of the runtime's blocking pool
max_blocking_threads == 2
\* the sub-items of a presentation-context item, the bytes of a value
MaxSubItems == 2
MaxValueLen == 1
\* the files one association carries
MaxAssocFiles == 65540

\* ------------------------------------------------------- program constants
\* .max_pdu_length(65536): the largest PDU the Sender takes
max_pdu_length == 65536
\* let max_pdu_data_size = 16000;
max_pdu_data_size == 16000
\* if data.len() < 68: the fixed fields of an A-ASSOCIATE-RQ
RqFixedLen == 68

VARIABLES
    \* --- the fragmentation loop of send_single_file_simple, on its own
    f_len,      \* dataset_buffer.len()
    f_cap,      \* max_pdu_data_size
    f_offset,   \* offset
    f_pdvs,     \* the Data PDVs emitted so far: <<[size, is_last]>>
    \* --- the Receiver's connections (DicomReceiver::start and the handlers)
    conn,       \* per connection: where its handler is
    permits,    \* connection_semaphore: the permits available
    waiters,    \* connection_semaphore: the handlers queued in acquire(), FIFO
    abort_seen, \* per connection: an A-ABORT PDU was read by the receive loop
    waited,     \* history: the connections that queued for a permit
    \* --- the Sender: send_files_blocking and send_single_file_simple
    files,            \* files: the sopClassUid of each DicomFile, in order
    sop_classes_vec,  \* the unique SOP classes, in the HashSet's iteration order
    sop_uid_mapping,  \* context_id (1, 2, 3, ...) -> SOP class UID
    pcs,              \* association.presentation_contexts(): <<[id, accepted]>>
    data_cap,         \* max_pdu_data_size, scaled
    s_pc,             \* where the Sender is
    idx,              \* the file being sent (1-based); message_id = idx
    presentation_context_id,
    dataset_buffer,
    offset,
    stats,            \* TransferStats
    \* --- the wire of that association
    to_scp,     \* PDUs written by the Sender, not yet read by the peer
    to_scu,     \* PDUs written by the peer, not yet read by the Sender
    scu_open,   \* the Sender's socket is open
    scp_open,   \* the peer's socket is open
    link_up,    \* the TCP connection is intact
    \* --- the peer: the Receiver's receive loop, or the SCP of SpecScp
    r_pc,       \* "none", "loop", "closed"
    transfers,  \* HashMap<u8, DicomTransfer>
    saved,      \* the files written to output_dir: <<[pc_id, data, of]>>
    \* --- history, read by the properties only
    cur,        \* the current file: PDUs sent, responses awaited, ...
    outcomes,   \* one record per file the Sender is through with
    responses,  \* what each response the Receiver emitted answered
    release,    \* how association.release() went
    aborted,    \* the Sender has read an A-ABORT; what it sent afterwards
    absorbed,   \* per context: the Data PDV payloads the Receiver has read
                \* since the last final one
    closed_by,  \* which arm ended the receive loop, and whether it wrote
    \* --- an association requestor other than this Sender
    scu_n,      \* the P-DATA-TF PDUs it has written
    \* --- the Sender's session: main and send_studies_worker
    dicom_files,    \* the indexed files: the study_instance_uid of each
    threads,        \* args.threads
    study_chunks,   \* studies.into_iter().collect(): <<[study_uid, files]>>
    o_pc,           \* where main is: "grouped", "joining", "done"
    workers,        \* per thread_id: the spawned send_studies_worker
    now,            \* the clock
    joined,         \* the handles main has awaited
    combined_stats, \* main's combined_stats
    handed,         \* history: per file, the send_files calls it was part of
    sent,           \* history: per file, the times the file loop took it up
    produced,       \* history: every TransferStats returned, and by whom
    \* --- the Receiver's output directory, over several connections
    utc_now,        \* what Utc::now() returns
    conn_state,     \* per connection: "idle", "loop", "closed"
    conn_transfers, \* per connection: transfers, with started_at
    conn_handled,   \* the PDVs handled so far, over all connections
    written_names,  \* history: the file names written, in order
    \* --- the hand-written acceptor of receiver_old.rs
    a_rq,           \* the PDU read from the socket
    a_pc,           \* "read", "done"
    a_reply,        \* the PDUs written to the socket
    a_association,  \* handle_association_request's Option<AssociationContext>
    \* --- main from the files on disk to the summary
    input_objs,     \* the files under args.input, as open_file finds them
    indexed,        \* files: the DicomFile records pushed so far
    m_pc,           \* "indexing", "found", "grouped", "summary", "none",
                    \* "panicked"
    to_send,        \* the studies no worker has taken up yet
    m_stats,        \* combined_stats
    \* --- a caller of the two catalogs
    q_uid,          \* the uid it asks about
    q_category,     \* the category it asks about
    q_answer,       \* what the operation it called returned
    \* --- the Receiver's connection handlers on the blocking pool
    b_task,         \* per peer: "none", "queued", "waiting", "holding",
                    \* "joining", "loop", "done"
    b_permits,      \* permits left in connection_semaphore
    \* --- one presentation context negotiated by the hand-written acceptor
    n_item,         \* the presentation-context item of a request, as read
    n_pc,           \* the context parsed from it, then evaluated
    n_reply,        \* the A-ASSOCIATE-AC written for it
    n_stage,        \* "read", "parsed", "evaluated", "replied"
    \* --- the PDUs the hand-written acceptor writes, byte by byte
    w_op,           \* the PDU written: "none", "reject", "accept", "release"
    w_pdu,          \* the bytes that write_all put on the socket
    \* --- the payload of an A-ASSOCIATE-RQ through the hand-written parser
    p_data,         \* pdu_data, the payload of the A-ASSOCIATE-RQ read
    p_outcome,      \* of parse_association_request: "Ok", "Err", "panic"
    p_stage,        \* "await", "read", "parsed"
    \* --- the Message IDs of the files of one association
    k_idx,          \* idx of files.iter().enumerate(): files handed on so far
    k_message_id,   \* message_id of the last send_single_file_simple call
    k_pc,           \* "loop", "done", "panicked"
    \* --- the Data PDVs of one file, and the peer's maximum PDU length
    x_peer_max,     \* Maximum Length of the A-ASSOCIATE-AC
    x_len,          \* dataset_buffer.len()
    x_offset,       \* offset
    x_emitted,      \* history: the payload sizes of the Data PDVs written
    x_pc            \* "loop", "sent", "failed"

fragVars == <<f_len, f_cap, f_offset, f_pdvs>>
recvVars == <<conn, permits, waiters, abort_seen, waited>>
sendVars == <<files, sop_classes_vec, sop_uid_mapping, pcs, data_cap, s_pc, idx,
              presentation_context_id, dataset_buffer, offset, stats>>
wireVars == <<to_scp, to_scu, scu_open, scp_open, link_up>>
peerVars == <<r_pc, transfers, saved>>
histVars == <<cur, outcomes, responses, release, aborted>>
assocVars == <<sendVars, wireVars, peerVars, histVars>>
obsVars == <<absorbed, closed_by>>
scuVars == <<scu_n>>
orchVars == <<dicom_files, threads, study_chunks, o_pc, workers, now, joined,
              combined_stats, handed, sent, produced>>
nameVars == <<utc_now, conn_state, conn_transfers, conn_handled, written_names>>
accVars == <<a_rq, a_pc, a_reply, a_association>>
mainVars == <<input_objs, indexed, m_pc, to_send, m_stats>>
catVars == <<q_uid, q_category, q_answer>>
poolVars == <<b_task, b_permits>>
pduVars == <<x_peer_max, x_len, x_offset, x_emitted, x_pc>>
negVars == <<n_item, n_pc, n_reply, n_stage>>
codecVars == <<w_op, w_pdu>>
parseVars == <<p_data, p_outcome, p_stage>>
msgIdVars == <<k_idx, k_message_id, k_pc>>
tailVars == <<pduVars, negVars, codecVars, parseVars, msgIdVars>>
farVars == <<orchVars, nameVars, accVars, mainVars, catVars, poolVars,
             tailVars>>
restVars == <<obsVars, scuVars, farVars>>
vars == <<fragVars, recvVars, assocVars, restVars>>
offOrch == <<fragVars, recvVars, assocVars, obsVars, scuVars, nameVars, accVars,
            mainVars,
            catVars, poolVars, tailVars>>
offNames == <<fragVars, recvVars, assocVars, obsVars, scuVars, orchVars, accVars,
             mainVars,
            catVars, poolVars, tailVars>>
offAcc == <<fragVars, recvVars, assocVars, obsVars, scuVars, orchVars, nameVars,
           mainVars,
            catVars, poolVars, tailVars>>
offCat == <<fragVars, recvVars, assocVars, obsVars, scuVars, orchVars, nameVars,
           accVars, mainVars, poolVars, tailVars>>
offPool == <<fragVars, recvVars, assocVars, obsVars, scuVars, orchVars, nameVars,
            accVars, mainVars, catVars, tailVars>>
offMain == <<fragVars, recvVars, assocVars, obsVars, scuVars, orchVars, nameVars,
            accVars,
            catVars, poolVars, tailVars>>
offPdu == <<fragVars, recvVars, assocVars, obsVars, scuVars, orchVars,
    nameVars, accVars, mainVars, catVars, poolVars, negVars, codecVars,
    parseVars, msgIdVars>>
offNeg == <<fragVars, recvVars, assocVars, obsVars, scuVars, orchVars,
    nameVars, accVars, mainVars, catVars, poolVars, pduVars, codecVars,
    parseVars, msgIdVars>>
offCodec == <<fragVars, recvVars, assocVars, obsVars, scuVars, orchVars,
    nameVars, accVars, mainVars, catVars, poolVars, pduVars, negVars,
    parseVars, msgIdVars>>
offParse == <<fragVars, recvVars, assocVars, obsVars, scuVars, orchVars,
    nameVars, accVars, mainVars, catVars, poolVars, pduVars, negVars,
    codecVars, msgIdVars>>
offMsgId == <<fragVars, recvVars, assocVars, obsVars, scuVars, orchVars,
    nameVars, accVars, mainVars, catVars, poolVars, pduVars, negVars,
    codecVars, parseVars>>

Min(a, b) == IF a <= b THEN a ELSE b

\* ---------------------------------------------------------- fragmentation
\* let chunk_size = std::cmp::min(max_pdu_data_size, dataset_buffer.len() - offset);
ChunkSize(len, off, cap) == Min(cap, len - off)

\* is_last computed with > for >=: the final PDV is never flagged
IsLastStrict(len, off, cap) == off + ChunkSize(len, off, cap) > len

\* let is_last = offset + chunk_size >= dataset_buffer.len();
IsLast(len, off, cap) == off + ChunkSize(len, off, cap) >= len

\* offset += chunk_size;
NextOffset(len, off, cap) == off + ChunkSize(len, off, cap)

\* while offset < dataset_buffer.len()
MoreChunks(len, off) == off < len

FragInit ==
    /\ \/ f_len \in 0..MaxLen /\ f_cap \in (1..MaxCap) \cup {max_pdu_data_size}
       \/ f_len = ScenarioLen /\ f_cap = max_pdu_data_size
    /\ f_offset = 0
    /\ f_pdvs = <<>>

\* one iteration of the while loop: build the Data PDV, advance the offset
FragStep ==
    /\ MoreChunks(f_len, f_offset)
    /\ f_pdvs' = Append(f_pdvs, [size |-> ChunkSize(f_len, f_offset, f_cap),
                                 is_last |-> IsLast(f_len, f_offset, f_cap)])
    /\ f_offset' = NextOffset(f_len, f_offset, f_cap)
    /\ UNCHANGED <<f_len, f_cap>>
    /\ UNCHANGED <<recvVars, assocVars, restVars>>

FragNext == FragStep

FragIdle ==
    /\ f_len = 0 /\ f_cap = 1 /\ f_offset = 0 /\ f_pdvs = <<>>

\* ------------------------------------------- the Receiver's connections
Conns == 1..NumConns

\* a handler holds a permit from acquire() until _permit is dropped
HoldsPermit(c) == conn[c] \in {"establish", "loop", "closing"}
Holders == {c \in Conns : HoldsPermit(c)}

\* a semaphore created with one permit too many
RecvInitOneMore ==
    /\ conn = [c \in Conns |-> "none"]
    /\ permits = max_connections + 1
    /\ waiters = <<>>
    /\ abort_seen = [c \in Conns |-> FALSE]
    /\ waited = {}

\* DicomReceiver::new: Semaphore::new(max_connections)
RecvInit ==
    /\ conn = [c \in Conns |-> "none"]
    /\ permits = max_connections
    /\ waiters = <<>>
    /\ abort_seen = [c \in Conns |-> FALSE]
    /\ waited = {}

RecvIdle ==
    /\ conn = [c \in Conns |-> "done"]
    /\ permits = max_connections
    /\ waiters = <<>>
    /\ abort_seen = [c \in Conns |-> FALSE]
    /\ waited = {}

\* listener.accept() followed by spawn_blocking(handle_connection_blocking):
\* the handler builds its server options and reaches acquire()
Accept(c) ==
    /\ conn[c] = "none"
    /\ conn' = [conn EXCEPT ![c] = "acquire"]
    /\ UNCHANGED <<permits, waiters, abort_seen, waited>>
    /\ UNCHANGED <<fragVars, assocVars, restVars>>

\* let _permit = receiver.connection_semaphore.acquire().await?;
\* a free permit is taken at once, otherwise the handler queues for one
Acquire(c) ==
    /\ conn[c] = "acquire"
    /\ IF permits > 0
       THEN /\ permits' = permits - 1
            /\ conn' = [conn EXCEPT ![c] = "establish"]
            /\ UNCHANGED <<waiters, waited>>
       ELSE /\ waiters' = Append(waiters, c)
            /\ waited' = waited \cup {c}
            /\ conn' = [conn EXCEPT ![c] = "waiting"]
            /\ UNCHANGED permits
    /\ UNCHANGED abort_seen
    /\ UNCHANGED <<fragVars, assocVars, restVars>>

\* a permit that returns to the pool without waking the handler that waits
DropPermitNoWake(c, to) ==
    /\ conn' = [conn EXCEPT ![c] = to]
    /\ permits' = permits + 1
    /\ UNCHANGED waiters

\* dropping _permit: the permit goes to the longest-waiting handler, which
\* then proceeds past acquire(); with nobody waiting it returns to the pool
DropPermit(c, to) ==
    IF waiters # <<>>
    THEN /\ conn' = [conn EXCEPT ![c] = to, ![Head(waiters)] = "establish"]
         /\ waiters' = Tail(waiters)
         /\ UNCHANGED permits
    ELSE /\ conn' = [conn EXCEPT ![c] = to]
         /\ permits' = permits + 1
         /\ UNCHANGED waiters

\* stream.into_std()? and server_options.establish(std_stream)? succeed:
\* the receive loop is spawned
EstablishOk(c) ==
    /\ conn[c] = "establish"
    /\ conn' = [conn EXCEPT ![c] = "loop"]
    /\ UNCHANGED <<permits, waiters, abort_seen, waited>>
    /\ UNCHANGED <<fragVars, assocVars, restVars>>

\* either of them fails: the ? returns from the handler and drops _permit
EstablishFail(c) ==
    /\ conn[c] = "establish"
    /\ DropPermit(c, "done")
    /\ UNCHANGED <<abort_seen, waited>>
    /\ UNCHANGED <<fragVars, assocVars, restVars>>

\* association.receive() yields a P-DATA-TF: handled, the loop goes on
LoopPData(c) ==
    /\ conn[c] = "loop"
    /\ ~abort_seen[c]
    /\ UNCHANGED recvVars
    /\ UNCHANGED <<fragVars, assocVars, restVars>>

\* association.receive() yields A-RELEASE-RQ: A-RELEASE-RP is sent, break
LoopRelease(c) ==
    /\ conn[c] = "loop"
    /\ ~abort_seen[c]
    /\ conn' = [conn EXCEPT ![c] = "closing"]
    /\ UNCHANGED <<permits, waiters, abort_seen, waited>>
    /\ UNCHANGED <<fragVars, assocVars, restVars>>

\* association.receive() yields any other PDU (A-ABORT among them): the
\* `_ =>` arm logs it and the loop goes on
LoopOther(c, abort) ==
    /\ conn[c] = "loop"
    /\ ~abort_seen[c]
    /\ abort_seen' = [abort_seen EXCEPT ![c] = abort]
    /\ UNCHANGED <<conn, permits, waiters, waited>>
    /\ UNCHANGED <<fragVars, assocVars, restVars>>

\* association.receive() fails (EOF, reset, framing): pending transfers are
\* flushed, break
LoopError(c) ==
    /\ conn[c] = "loop"
    /\ conn' = [conn EXCEPT ![c] = "closing"]
    /\ UNCHANGED <<permits, waiters, abort_seen, waited>>
    /\ UNCHANGED <<fragVars, assocVars, restVars>>

\* the spawned loop is joined, the handler returns and _permit is dropped
HandlerReturn(c) ==
    /\ conn[c] = "closing"
    /\ DropPermit(c, "done")
    /\ UNCHANGED <<abort_seen, waited>>
    /\ UNCHANGED <<fragVars, assocVars, restVars>>

RecvNext ==
    \E c \in Conns :
        \/ Accept(c)
        \/ Acquire(c)
        \/ EstablishOk(c)
        \/ EstablishFail(c)
        \/ LoopPData(c)
        \/ LoopRelease(c)
        \/ \E abort \in BOOLEAN : LoopOther(c, abort)
        \/ LoopError(c)
        \/ HandlerReturn(c)

\* ------------------------------------------------------------ the Sender
\* the SOP classes a file may carry: CT, MR and Ultrasound Image Storage
SopClassUids ==
    <<"1.2.840.10008.5.1.4.1.1.2", "1.2.840.10008.5.1.4.1.1.4",
      "1.2.840.10008.5.1.4.1.1.6.1">>
SopClassSet == {SopClassUids[i] : i \in 1..Min(MaxSopClasses, Len(SopClassUids))}

\* the bytes obj.write_dataset_with_ts() leaves in dataset_buffer for file i
\* when the dataset is len bytes long: every byte differs from every other
Bytes(i, len) == [k \in 1..len |-> 16 * i + k]

\* required_sop_classes: the SOP classes of the files
UniqueSopClasses(fs) == {fs[i] : i \in DOMAIN fs}

\* sop_classes_vec: required_sop_classes.into_iter().collect(), in any order
Orders(S) ==
    {v \in [1..Cardinality(S) -> S] : \A i, j \in DOMAIN v : v[i] = v[j] => i = j}

\* sop_uid_mapping.insert(context_id, sop_uid.clone()); context_id += 1;
\* starting from context_id = 1
SopUidMapping(vec) == [context_id \in 1..Len(vec) |-> vec[context_id]]

\* ------------------------------------------------------- the two catalogs
\* const ALL_SOP_CLASSES: &[SopClassInfo], in the order of the table
ALL_SOP_CLASSES ==
    <<[uid |-> "1.2.840.10008.5.1.4.1.1.1", category |-> "ComputedRadiography"],
      [uid |-> "1.2.840.10008.5.1.4.1.1.1.1", category |-> "DigitalRadiography"],
      [uid |-> "1.2.840.10008.5.1.4.1.1.1.1.1", category |-> "DigitalRadiography"],
      [uid |-> "1.2.840.10008.5.1.4.1.1.1.2", category |-> "DigitalMammography"],
      [uid |-> "1.2.840.10008.5.1.4.1.1.1.2.1", category |-> "DigitalMammography"],
      [uid |-> "1.2.840.10008.5.1.4.1.1.1.3", category |-> "Dental"],
      [uid |-> "1.2.840.10008.5.1.4.1.1.1.3.1", category |-> "Dental"],
      [uid |-> "1.2.840.10008.5.1.4.1.1.2", category |-> "ComputedTomography"],
      [uid |-> "1.2.840.10008.5.1.4.1.1.2.1", category |-> "Enhanced"],
      [uid |-> "1.2.840.10008.5.1.4.1.1.2.2", category |-> "Legacy"],
      [uid |-> "1.2.840.10008.5.1.4.1.1.3.1", category |-> "Ultrasound"],
      [uid |-> "1.2.840.10008.5.1.4.1.1.4", category |-> "MagneticResonance"],
      [uid |-> "1.2.840.10008.5.1.4.1.1.4.1", category |-> "Enhanced"],
      [uid |-> "1.2.840.10008.5.1.4.1.1.4.2", category |-> "MagneticResonance"],
      [uid |-> "1.2.840.10008.5.1.4.1.1.4.3", category |-> "Enhanced"],
      [uid |-> "1.2.840.10008.5.1.4.1.1.4.4", category |-> "Legacy"],
      [uid |-> "1.2.840.10008.5.1.4.1.1.5", category |-> "Legacy"],
      [uid |-> "1.2.840.10008.5.1.4.1.1.20", category |-> "NuclearMedicine"],
      [uid |-> "1.2.840.10008.5.1.4.1.1.6.1", category |-> "Ultrasound"],
      [uid |-> "1.2.840.10008.5.1.4.1.1.6.2", category |-> "Enhanced"],
      [uid |-> "1.2.840.10008.5.1.4.1.1.7", category |-> "SecondaryCapture"],
      [uid |-> "1.2.840.10008.5.1.4.1.1.7.1", category |-> "SecondaryCapture"],
      [uid |-> "1.2.840.10008.5.1.4.1.1.7.2", category |-> "SecondaryCapture"],
      [uid |-> "1.2.840.10008.5.1.4.1.1.7.3", category |-> "SecondaryCapture"],
      [uid |-> "1.2.840.10008.5.1.4.1.1.7.4", category |-> "SecondaryCapture"],
      [uid |-> "1.2.840.10008.5.1.4.1.1.12.1", category |-> "DigitalRadiography"],
      [uid |-> "1.2.840.10008.5.1.4.1.1.12.1.1", category |-> "Enhanced"],
      [uid |-> "1.2.840.10008.5.1.4.1.1.12.2", category |-> "DigitalRadiography"],
      [uid |-> "1.2.840.10008.5.1.4.1.1.12.2.1", category |-> "Enhanced"],
      [uid |-> "1.2.840.10008.5.1.4.1.1.128", category |-> "NuclearMedicine"],
      [uid |-> "1.2.840.10008.5.1.4.1.1.130", category |-> "Enhanced"],
      [uid |-> "1.2.840.10008.5.1.4.1.1.131", category |-> "Legacy"],
      [uid |-> "1.2.840.10008.5.1.4.1.1.481.1", category |-> "Radiotherapy"],
      [uid |-> "1.2.840.10008.5.1.4.1.1.481.2", category |-> "Radiotherapy"],
      [uid |-> "1.2.840.10008.5.1.4.1.1.481.3", category |-> "Radiotherapy"],
      [uid |-> "1.2.840.10008.5.1.4.1.1.481.4", category |-> "Radiotherapy"],
      [uid |-> "1.2.840.10008.5.1.4.1.1.481.5", category |-> "Radiotherapy"],
      [uid |-> "1.2.840.10008.5.1.4.1.1.481.6", category |-> "Radiotherapy"],
      [uid |-> "1.2.840.10008.5.1.4.1.1.481.7", category |-> "Radiotherapy"],
      [uid |-> "1.2.840.10008.5.1.4.1.1.481.8", category |-> "Radiotherapy"],
      [uid |-> "1.2.840.10008.5.1.4.1.1.481.9", category |-> "Radiotherapy"],
      [uid |-> "1.2.840.10008.5.1.4.1.1.9.1.1", category |-> "Waveform"],
      [uid |-> "1.2.840.10008.5.1.4.1.1.9.1.2", category |-> "Waveform"],
      [uid |-> "1.2.840.10008.5.1.4.1.1.9.1.3", category |-> "Waveform"],
      [uid |-> "1.2.840.10008.5.1.4.1.1.9.2.1", category |-> "Waveform"],
      [uid |-> "1.2.840.10008.5.1.4.1.1.9.3.1", category |-> "Waveform"],
      [uid |-> "1.2.840.10008.5.1.4.1.1.9.4.1", category |-> "Waveform"],
      [uid |-> "1.2.840.10008.5.1.4.1.1.9.4.2", category |-> "Waveform"],
      [uid |-> "1.2.840.10008.5.1.4.1.1.9.5.1", category |-> "Waveform"],
      [uid |-> "1.2.840.10008.5.1.4.1.1.9.6.1", category |-> "Waveform"],
      [uid |-> "1.2.840.10008.5.1.4.1.1.9.6.2", category |-> "Waveform"],
      [uid |-> "1.2.840.10008.5.1.4.1.1.9.7.1", category |-> "Waveform"],
      [uid |-> "1.2.840.10008.5.1.4.1.1.9.7.2", category |-> "Waveform"],
      [uid |-> "1.2.840.10008.5.1.4.1.1.9.7.3", category |-> "Waveform"],
      [uid |-> "1.2.840.10008.5.1.4.1.1.9.7.4", category |-> "Waveform"],
      [uid |-> "1.2.840.10008.5.1.4.1.1.9.8.1", category |-> "Waveform"],
      [uid |-> "1.2.840.10008.5.1.4.1.1.88.11", category |-> "StructuredReporting"],
      [uid |-> "1.2.840.10008.5.1.4.1.1.88.22", category |-> "StructuredReporting"],
      [uid |-> "1.2.840.10008.5.1.4.1.1.88.33", category |-> "StructuredReporting"],
      [uid |-> "1.2.840.10008.5.1.4.1.1.88.40", category |-> "StructuredReporting"],
      [uid |-> "1.2.840.10008.5.1.4.1.1.88.50", category |-> "StructuredReporting"],
      [uid |-> "1.2.840.10008.5.1.4.1.1.88.59", category |-> "KeyObjectSelection"],
      [uid |-> "1.2.840.10008.5.1.4.1.1.88.65", category |-> "StructuredReporting"],
      [uid |-> "1.2.840.10008.5.1.4.1.1.88.67", category |-> "StructuredReporting"],
      [uid |-> "1.2.840.10008.5.1.4.1.1.88.68", category |-> "StructuredReporting"],
      [uid |-> "1.2.840.10008.5.1.4.1.1.88.69", category |-> "StructuredReporting"],
      [uid |-> "1.2.840.10008.5.1.4.1.1.88.70", category |-> "StructuredReporting"],
      [uid |-> "1.2.840.10008.5.1.4.1.1.88.71", category |-> "StructuredReporting"],
      [uid |-> "1.2.840.10008.5.1.4.1.1.88.72", category |-> "StructuredReporting"],
      [uid |-> "1.2.840.10008.5.1.4.1.1.88.73", category |-> "StructuredReporting"],
      [uid |-> "1.2.840.10008.5.1.4.1.1.88.74", category |-> "StructuredReporting"],
      [uid |-> "1.2.840.10008.5.1.4.1.1.88.75", category |-> "StructuredReporting"],
      [uid |-> "1.2.840.10008.5.1.4.1.1.88.76", category |-> "StructuredReporting"],
      [uid |-> "1.2.840.10008.5.1.4.1.1.66", category |-> "RawData"],
      [uid |-> "1.2.840.10008.5.1.4.1.1.66.1", category |-> "Other"],
      [uid |-> "1.2.840.10008.5.1.4.1.1.66.2", category |-> "Other"],
      [uid |-> "1.2.840.10008.5.1.4.1.1.66.3", category |-> "Other"],
      [uid |-> "1.2.840.10008.5.1.4.1.1.66.4", category |-> "Other"],
      [uid |-> "1.2.840.10008.5.1.4.1.1.66.5", category |-> "Other"],
      [uid |-> "1.2.840.10008.5.1.4.1.1.66.6", category |-> "Other"],
      [uid |-> "1.2.840.10008.5.1.4.1.1.11.1", category |-> "Presentation"],
      [uid |-> "1.2.840.10008.5.1.4.1.1.11.2", category |-> "Presentation"],
      [uid |-> "1.2.840.10008.5.1.4.1.1.11.3", category |-> "Presentation"],
      [uid |-> "1.2.840.10008.5.1.4.1.1.11.4", category |-> "Presentation"],
      [uid |-> "1.2.840.10008.5.1.4.1.1.11.5", category |-> "Presentation"],
      [uid |-> "1.2.840.10008.5.1.4.1.1.11.6", category |-> "Presentation"],
      [uid |-> "1.2.840.10008.5.1.4.1.1.11.7", category |-> "Presentation"],
      [uid |-> "1.2.840.10008.5.1.4.1.1.11.8", category |-> "Presentation"],
      [uid |-> "1.2.840.10008.5.1.4.1.1.11.9", category |-> "Presentation"],
      [uid |-> "1.2.840.10008.5.1.4.1.1.11.10", category |-> "Presentation"],
      [uid |-> "1.2.840.10008.5.1.4.1.1.11.11", category |-> "Presentation"],
      [uid |-> "1.2.840.10008.5.1.4.1.1.77.1.1", category |-> "Endoscopy"],
      [uid |-> "1.2.840.10008.5.1.4.1.1.77.1.2", category |-> "Microscopy"],
      [uid |-> "1.2.840.10008.5.1.4.1.1.77.1.3", category |-> "Other"],
      [uid |-> "1.2.840.10008.5.1.4.1.1.77.1.4", category |-> "Ophthalmology"],
      [uid |-> "1.2.840.10008.5.1.4.1.1.77.1.4.1", category |-> "Ophthalmology"],
      [uid |-> "1.2.840.10008.5.1.4.1.1.77.1.5.1", category |-> "Ophthalmology"],
      [uid |-> "1.2.840.10008.5.1.4.1.1.77.1.5.2", category |-> "OpticalCoherenceTomography"],
      [uid |-> "1.2.840.10008.5.1.4.1.1.77.1.5.3", category |-> "Ophthalmology"],
      [uid |-> "1.2.840.10008.5.1.4.1.1.77.1.5.4", category |-> "Ophthalmology"],
      [uid |-> "1.2.840.10008.5.1.4.1.1.77.1.5.5", category |-> "OpticalCoherenceTomography"],
      [uid |-> "1.2.840.10008.5.1.4.1.1.77.1.5.6", category |-> "OpticalCoherenceTomography"],
      [uid |-> "1.2.840.10008.5.1.4.1.1.77.1.5.7", category |-> "Microscopy"],
      [uid |-> "1.2.840.10008.5.1.4.1.1.77.1.5.8", category |-> "Dermatology"],
      [uid |-> "1.2.840.10008.5.1.4.1.1.77.1.6", category |-> "Ophthalmology"],
      [uid |-> "1.2.840.10008.5.1.4.1.1.77.1.7", category |-> "Ophthalmology"],
      [uid |-> "1.2.840.10008.5.1.4.1.1.77.1.8", category |-> "Ophthalmology"],
      [uid |-> "1.2.840.10008.5.1.4.1.1.3", category |-> "Legacy"],
      [uid |-> "1.2.840.10008.5.1.4.1.1.8", category |-> "Legacy"],
      [uid |-> "1.2.840.10008.5.1.4.1.1.10", category |-> "Legacy"],
      [uid |-> "1.2.840.10008.5.1.4.1.1.129", category |-> "Legacy"],
      [uid |-> "1.2.840.10008.1.3.10", category |-> "Other"],
      [uid |-> "1.2.840.10008.5.1.4.38.1", category |-> "Other"],
      [uid |-> "1.2.840.10008.5.1.4.39.1", category |-> "Other"],
      [uid |-> "1.2.840.10008.5.1.4.43.1", category |-> "Other"],
      [uid |-> "1.2.840.10008.5.1.4.44.1", category |-> "Other"],
      [uid |-> "1.2.840.10008.5.1.4.45.1", category |-> "Other"]>>

\* const ALL_TRANSFER_SYNTAXES: &[TransferSyntaxInfo], in the order of the table
ALL_TRANSFER_SYNTAXES ==
    <<[uid |-> "1.2.840.10008.1.2", category |-> "Uncompressed"],
      [uid |-> "1.2.840.10008.1.2.1", category |-> "Uncompressed"],
      [uid |-> "1.2.840.10008.1.2.2", category |-> "Legacy"],
      [uid |-> "1.2.840.10008.1.2.4.50", category |-> "LossyCompressed"],
      [uid |-> "1.2.840.10008.1.2.4.51", category |-> "LossyCompressed"],
      [uid |-> "1.2.840.10008.1.2.4.52", category |-> "Legacy"],
      [uid |-> "1.2.840.10008.1.2.4.53", category |-> "Legacy"],
      [uid |-> "1.2.840.10008.1.2.4.54", category |-> "Legacy"],
      [uid |-> "1.2.840.10008.1.2.4.55", category |-> "Legacy"],
      [uid |-> "1.2.840.10008.1.2.4.56", category |-> "Legacy"],
      [uid |-> "1.2.840.10008.1.2.4.57", category |-> "LosslessCompressed"],
      [uid |-> "1.2.840.10008.1.2.4.58", category |-> "Legacy"],
      [uid |-> "1.2.840.10008.1.2.4.59", category |-> "Legacy"],
      [uid |-> "1.2.840.10008.1.2.4.60", category |-> "Legacy"],
      [uid |-> "1.2.840.10008.1.2.4.61", category |-> "Legacy"],
      [uid |-> "1.2.840.10008.1.2.4.62", category |-> "Legacy"],
      [uid |-> "1.2.840.10008.1.2.4.63", category |-> "Legacy"],
      [uid |-> "1.2.840.10008.1.2.4.64", category |-> "Legacy"],
      [uid |-> "1.2.840.10008.1.2.4.65", category |-> "Legacy"],
      [uid |-> "1.2.840.10008.1.2.4.66", category |-> "Legacy"],
      [uid |-> "1.2.840.10008.1.2.4.70", category |-> "LosslessCompressed"],
      [uid |-> "1.2.840.10008.1.2.4.80", category |-> "LosslessCompressed"],
      [uid |-> "1.2.840.10008.1.2.4.81", category |-> "LossyCompressed"],
      [uid |-> "1.2.840.10008.1.2.4.90", category |-> "LosslessCompressed"],
      [uid |-> "1.2.840.10008.1.2.4.91", category |-> "LossyCompressed"],
      [uid |-> "1.2.840.10008.1.2.4.92", category |-> "LosslessCompressed"],
      [uid |-> "1.2.840.10008.1.2.4.93", category |-> "LossyCompressed"],
      [uid |-> "1.2.840.10008.1.2.4.94", category |-> "Legacy"],
      [uid |-> "1.2.840.10008.1.2.4.95", category |-> "Legacy"],
      [uid |-> "1.2.840.10008.1.2.5", category |-> "LosslessCompressed"],
      [uid |-> "1.2.840.10008.1.2.6.1", category |-> "Legacy"],
      [uid |-> "1.2.840.10008.1.2.6.2", category |-> "Legacy"],
      [uid |-> "1.2.840.10008.1.2.7.1", category |-> "Video"],
      [uid |-> "1.2.840.10008.1.2.7.2", category |-> "Video"],
      [uid |-> "1.2.840.10008.1.2.7.3", category |-> "Video"],
      [uid |-> "1.2.840.10008.1.2.4.100", category |-> "Video"],
      [uid |-> "1.2.840.10008.1.2.4.101", category |-> "Video"],
      [uid |-> "1.2.840.10008.1.2.4.102", category |-> "Video"],
      [uid |-> "1.2.840.10008.1.2.4.103", category |-> "Video"],
      [uid |-> "1.2.840.10008.1.2.4.104", category |-> "Video"],
      [uid |-> "1.2.840.10008.1.2.4.105", category |-> "Video"],
      [uid |-> "1.2.840.10008.1.2.4.106", category |-> "Video"],
      [uid |-> "1.2.840.10008.1.2.4.107", category |-> "Video"],
      [uid |-> "1.2.840.10008.1.2.4.108", category |-> "Video"],
      [uid |-> "1.2.840.10008.1.2.4.201", category |-> "LosslessCompressed"],
      [uid |-> "1.2.840.10008.1.2.4.202", category |-> "LosslessCompressed"],
      [uid |-> "1.2.840.10008.1.2.4.203", category |-> "LossyCompressed"]>>

\* enum SopClassCategory
SopClassCategories ==
    {"ComputedRadiography", "ComputedTomography", "MagneticResonance",
     "Ultrasound", "NuclearMedicine", "DigitalRadiography",
     "DigitalMammography", "PetCt", "OpticalCoherenceTomography", "Endoscopy",
     "Microscopy", "StructuredReporting", "Presentation", "Waveform",
     "RawData", "SecondaryCapture", "KeyObjectSelection", "Enhanced",
     "MultiFrame", "Radiotherapy", "Ophthalmology", "Dermatology", "Dental",
     "Legacy", "Other"}

\* enum TransferSyntaxCategory
TransferSyntaxCategories ==
    {"Uncompressed", "LosslessCompressed", "LossyCompressed", "Legacy", "Video"}

\* for entry in TABLE { map.insert(entry.uid, entry.clone()) }: the map after
\* the entries from the i-th on were inserted into `map`; an insert under a
\* key the map holds replaces the value (two turns of the loop a step)
RECURSIVE InsertFrom(_, _, _)
InsertFrom(map, table, i) ==
    IF i > Len(table) THEN map
    ELSE IF i = Len(table) THEN (table[i].uid :> table[i]) @@ map
    ELSE InsertFrom((table[i + 1].uid :> table[i + 1])
                        @@ (table[i].uid :> table[i]) @@ map,
                    table, i + 2)

\* a registry whose loop skips the first entry of the table
RegistryWithoutFirst(table) == InsertFrom(<<>>, table, 2)

\* SopClassRegistry::new / TransferSyntaxRegistry::new
RegistryNew(table) == InsertFrom(<<>>, table, 1)

\* SopClassRegistry.classes, TransferSyntaxRegistry.syntaxes
classes == RegistryNew(ALL_SOP_CLASSES)
syntaxes == RegistryNew(ALL_TRANSFER_SYNTAXES)

\* get(uid): Some(info) as <<info>>, None as <<>>
Get(map, uid) == IF uid \in DOMAIN map THEN <<map[uid]>> ELSE <<>>

\* is_supported(uid): contains_key
IsSupported(map, uid) == uid \in DOMAIN map

\* get_all_uids(): TABLE.iter().map(|e| e.uid).collect()
GetAllUids(table) == [i \in DOMAIN table |-> table[i].uid]

\* get_by_category(category): TABLE.iter().filter(|e| e.category == category)
GetByCategory(table, category) ==
    SelectSeq(table, LAMBDA info : info.category = category)

\* SopClassRegistry: the category of a SOP class (of those in SopClassUids)
SopClassCategory(sop_uid) ==
    CASE sop_uid = "1.2.840.10008.5.1.4.1.1.2" -> "ComputedTomography"
      [] sop_uid = "1.2.840.10008.5.1.4.1.1.4" -> "MagneticResonance"
      [] sop_uid = "1.2.840.10008.5.1.4.1.1.6.1" -> "Ultrasound"
      [] OTHER -> "Other"

\* get_basic_transfer_syntaxes(): Explicit, Implicit VR Little Endian
BasicTransferSyntaxes == <<"1.2.840.10008.1.2.1", "1.2.840.10008.1.2">>

\* a lossless list that leaves Implicit VR Little Endian out
LosslessWithoutImplicit ==
    <<"1.2.840.10008.1.2.1", "1.2.840.10008.1.2.4.70",
      "1.2.840.10008.1.2.4.80", "1.2.840.10008.1.2.4.90",
      "1.2.840.10008.1.2.5">>

\* get_lossless_transfer_syntaxes()
LosslessTransferSyntaxes ==
    <<"1.2.840.10008.1.2.1", "1.2.840.10008.1.2", "1.2.840.10008.1.2.4.70",
      "1.2.840.10008.1.2.4.80", "1.2.840.10008.1.2.4.90",
      "1.2.840.10008.1.2.5">>

\* get_compressed_transfer_syntaxes()
CompressedTransferSyntaxes ==
    <<"1.2.840.10008.1.2.1", "1.2.840.10008.1.2", "1.2.840.10008.1.2.4.50",
      "1.2.840.10008.1.2.4.51", "1.2.840.10008.1.2.4.70",
      "1.2.840.10008.1.2.4.80", "1.2.840.10008.1.2.4.81",
      "1.2.840.10008.1.2.4.90", "1.2.840.10008.1.2.4.91",
      "1.2.840.10008.1.2.5">>

\* get_comprehensive_transfer_syntaxes(): registry.get_all_uids()
ComprehensiveTransferSyntaxes == GetAllUids(ALL_TRANSFER_SYNTAXES)

\* get_video_transfer_syntaxes(): the uids of get_by_category(Video)
VideoTransferSyntaxes == GetAllUids(GetByCategory(ALL_TRANSFER_SYNTAXES, "Video"))

\* sop_classes::get_default_transfer_syntaxes()
DefaultTransferSyntaxes == BasicTransferSyntaxes

\* sop_classes::get_extended_transfer_syntaxes() (deprecated)
ExtendedTransferSyntaxes == ComprehensiveTransferSyntaxes

\* a policy whose match has no arm for Legacy
GetTransferSyntaxesNoLegacy(category) ==
    CASE category \in {"ComputedTomography", "MagneticResonance",
                       "DigitalRadiography", "DigitalMammography"}
           -> CompressedTransferSyntaxes
      [] category = "Enhanced" -> ComprehensiveTransferSyntaxes
      [] category \in {"Endoscopy", "Microscopy"}
           -> CompressedTransferSyntaxes \o VideoTransferSyntaxes
      [] OTHER -> LosslessTransferSyntaxes

\* get_transfer_syntaxes_for_category()
GetTransferSyntaxesForCategory(category) ==
    CASE category \in {"ComputedTomography", "MagneticResonance",
                       "DigitalRadiography", "DigitalMammography"}
           -> CompressedTransferSyntaxes
      [] category = "Enhanced" -> ComprehensiveTransferSyntaxes
      [] category \in {"Waveform", "RawData"} -> LosslessTransferSyntaxes
      [] category \in {"Endoscopy", "Microscopy"}
           -> CompressedTransferSyntaxes \o VideoTransferSyntaxes
      [] category = "Legacy" -> BasicTransferSyntaxes
      [] OTHER -> LosslessTransferSyntaxes

\* let transfer_syntaxes = vec![Explicit VR LE, Implicit VR LE]
transfer_syntaxes == <<"1.2.840.10008.1.2.1", "1.2.840.10008.1.2">>

\* the contexts handed to with_presentation_context(sop_uid, ts_refs), one
\* for every entry of sop_classes_vec
ProposedContexts(vec) ==
    [i \in DOMAIN vec |->
        [abstract_syntax |-> vec[i], transfer_syntaxes |-> transfer_syntaxes]]

\* with_presentation_context(): the i-th context proposed goes on the wire
\* with presentation context id 1, 3, 5, ...
WireContextId(i) == 2 * i - 1

\* the abstract syntax that was proposed, and accepted, under a wire id
AbstractSyntaxOf(vec, id) == vec[(id + 1) \div 2]

\* for pc in association.presentation_contexts() { if Acceptance { if let
\* Some(sop_uid) = sop_uid_mapping.get(&pc.id) { if sop_uid == sop_class_uid
\* { presentation_context_id = Some(pc.id); break } } } }     (0: None)
RECURSIVE FindContextFrom(_, _, _, _)
FindContextFrom(p, mapping, sop_class_uid, i) ==
    IF i > Len(p) THEN 0
    ELSE IF /\ p[i].accepted
            /\ p[i].id \in DOMAIN mapping
            /\ mapping[p[i].id] = sop_class_uid
         THEN p[i].id
         ELSE FindContextFrom(p, mapping, sop_class_uid, i + 1)

FindContext(p, mapping, sop_class_uid) ==
    FindContextFrom(p, mapping, sop_class_uid, 1)

\* file.sop_instance_uid of the i-th file (of the n-th message)
SopInstanceUid(n) == <<"1.2.3", n>>

\* PDUs
CommandPdv(pc_id, i, len) ==
    [presentation_context_id |-> pc_id, value_type |-> "Command",
     is_last |-> TRUE,
     data |-> [command_field |-> "C-STORE-RQ", message_id |-> i,
               affected_sop_instance_uid |-> SopInstanceUid(i)],
     of |-> [file |-> i, len |-> len]]

DataPdv(pc_id, i, len, off, c) ==
    [presentation_context_id |-> pc_id, value_type |-> "Data",
     is_last |-> IsLast(len, off, c),
     data |-> SubSeq(Bytes(i, len), off + 1, off + ChunkSize(len, off, c)),
     of |-> [file |-> i, len |-> len]]

PData(pdv) == [type |-> "PData", data |-> <<pdv>>]
ReleaseRQ == [type |-> "ReleaseRQ"]
ReleaseRP == [type |-> "ReleaseRP"]
AbortRQ == [type |-> "AbortRQ"]

NoStats ==
    [total_files |-> 0, successful_transfers |-> 0, failed_transfers |-> 0,
     total_bytes |-> 0]

NewCur == [sent |-> 0, awaited |-> 0, final_sent |-> FALSE,
           final_rsp |-> FALSE, statuses |-> {}, pc_id |-> 0]
NoAbort == [read |-> FALSE, mid_file |-> FALSE, file |-> 0, sent |-> 0]

\* the files handed to send_files_blocking and what it derives from them
\* before it connects
SenderInit ==
    /\ \E n \in 1..MaxFiles : files \in [1..n -> SopClassSet]
    /\ sop_classes_vec \in Orders(UniqueSopClasses(files))
    /\ sop_uid_mapping = SopUidMapping(sop_classes_vec)
    /\ data_cap \in 1..MaxChunk
    /\ pcs = <<>>
    /\ s_pc = "start"
    /\ idx = 1
    /\ presentation_context_id = 0
    /\ dataset_buffer = <<>>
    /\ offset = 0
    /\ stats = NoStats
    /\ to_scp = <<>> /\ to_scu = <<>>
    /\ scu_open = TRUE /\ scp_open = TRUE /\ link_up = TRUE
    /\ r_pc = "none"
    /\ transfers = <<>>
    /\ saved = <<>>
    /\ cur = NewCur
    /\ outcomes = <<>>
    /\ responses = <<>>
    /\ release = "none"
    /\ aborted = NoAbort
    /\ absorbed = <<>>
    /\ closed_by = "none"

AssocIdle ==
    /\ files = <<>> /\ sop_classes_vec = <<>> /\ sop_uid_mapping = <<>>
    /\ data_cap = 1 /\ pcs = <<>> /\ s_pc = "idle" /\ idx = 1
    /\ presentation_context_id = 0 /\ dataset_buffer = <<>> /\ offset = 0
    /\ stats = NoStats
    /\ to_scp = <<>> /\ to_scu = <<>>
    /\ scu_open = FALSE /\ scp_open = FALSE /\ link_up = FALSE
    /\ r_pc = "none" /\ transfers = <<>> /\ saved = <<>>
    /\ cur = NewCur /\ outcomes = <<>> /\ responses = <<>>
    /\ release = "none" /\ aborted = NoAbort
    /\ absorbed = <<>> /\ closed_by = "none"

\* association.send(): the PDU is written to the socket. It reaches the
\* peer's queue while the peer still reads; written to a connection the peer
\* has closed it is lost.
Written(pdu) ==
    /\ link_up /\ scu_open
    /\ to_scp' = IF scp_open THEN Append(to_scp, pdu) ELSE to_scp
    /\ aborted' = IF aborted.read
                  THEN [aborted EXCEPT !.sent = Min(@ + 1, 2)] ELSE aborted

\* association.send() may fail once the connection is lost or the peer has
\* closed its end
WriteFails == ~link_up \/ ~scp_open

\* association.receive() has a PDU to return
Readable == to_scu # <<>>
\* association.receive() fails: nothing left to read, and the peer has
\* closed or the connection is lost
ReadFails == to_scu = <<>> /\ (~link_up \/ ~scp_open)

\* Err(e) => stats.failed_transfers += 1, and on to the next file
FileFailed(why) ==
    /\ stats' = [stats EXCEPT !.failed_transfers = @ + 1]
    /\ outcomes' = Append(outcomes, [ok |-> FALSE, why |-> why, file |-> idx,
                                    rec |-> cur])
    /\ cur' = NewCur
    /\ idx' = idx + 1
    /\ s_pc' = "file"

\* establish_with() succeeds: every context proposed comes back, in order,
\* accepted when its position is in acc; at least one is accepted
EstablishedWith(acc) ==
    /\ s_pc = "start"
    /\ link_up
    /\ acc # {}
    /\ pcs' = [i \in 1..Len(sop_classes_vec) |->
                 [id |-> WireContextId(i), accepted |-> i \in acc]]
    /\ s_pc' = "file"
    /\ r_pc' = "loop"
    /\ UNCHANGED <<files, sop_classes_vec, sop_uid_mapping, data_cap, idx,
                   presentation_context_id, dataset_buffer, offset, stats>>
    /\ UNCHANGED <<wireVars, transfers, saved, histVars>>
    /\ UNCHANGED <<fragVars, recvVars, restVars>>

\* establish_with() fails: return Err(..), no statistics
EstablishFails ==
    /\ s_pc = "start"
    /\ s_pc' = "failed"
    /\ scu_open' = FALSE
    /\ UNCHANGED <<files, sop_classes_vec, sop_uid_mapping, pcs, data_cap, idx,
                   presentation_context_id, dataset_buffer, offset, stats>>
    /\ UNCHANGED <<to_scp, to_scu, scp_open, link_up, peerVars, histVars>>
    /\ UNCHANGED <<fragVars, recvVars, restVars>>

AtFile == s_pc = "file" /\ idx <= Len(files)

\* open_file(&file.path)? or write_dataset_with_ts()? fails
OpenFails ==
    /\ AtFile
    /\ FileFailed("open")
    /\ UNCHANGED <<files, sop_classes_vec, sop_uid_mapping, pcs, data_cap,
                   presentation_context_id, dataset_buffer, offset>>
    /\ UNCHANGED <<wireVars, peerVars, responses, release, aborted>>
    /\ UNCHANGED <<fragVars, recvVars, restVars>>

\* no presentation context is found for the file: ok_or_else(..)? returns
NoContextFound ==
    /\ AtFile
    /\ FindContext(pcs, sop_uid_mapping, files[idx]) = 0
    /\ FileFailed("no_context")
    /\ UNCHANGED <<files, sop_classes_vec, sop_uid_mapping, pcs, data_cap,
                   presentation_context_id, dataset_buffer, offset>>
    /\ UNCHANGED <<wireVars, peerVars, responses, release, aborted>>
    /\ UNCHANGED <<fragVars, recvVars, restVars>>

\* a context is found, the dataset (len bytes) and the command are
\* serialized and the Command PDV is sent in a P-DATA-TF of its own
SendCommand(len) ==
    /\ AtFile
    /\ LET pc_id == FindContext(pcs, sop_uid_mapping, files[idx]) IN
        /\ pc_id # 0
        /\ Written(PData(CommandPdv(pc_id, idx, len)))
        /\ presentation_context_id' = pc_id
        /\ cur' = [cur EXCEPT !.sent = @ + 1, !.pc_id = pc_id]
    /\ dataset_buffer' = Bytes(idx, len)
    /\ offset' = 0
    /\ s_pc' = "data"
    /\ UNCHANGED <<files, sop_classes_vec, sop_uid_mapping, pcs, data_cap, idx,
                   stats>>
    /\ UNCHANGED <<to_scu, scu_open, scp_open, link_up, peerVars, outcomes,
                   responses, release>>
    /\ UNCHANGED <<fragVars, recvVars, restVars>>

\* association.send(command)? fails
SendCommandFails ==
    /\ AtFile
    /\ FindContext(pcs, sop_uid_mapping, files[idx]) # 0
    /\ WriteFails
    /\ FileFailed("send")
    /\ UNCHANGED <<files, sop_classes_vec, sop_uid_mapping, pcs, data_cap,
                   presentation_context_id, dataset_buffer, offset>>
    /\ UNCHANGED <<wireVars, peerVars, responses, release, aborted>>
    /\ UNCHANGED <<fragVars, recvVars, restVars>>

InDataLoop == s_pc = "data"

\* while offset < dataset_buffer.len(): the next Data PDV is sent in a
\* P-DATA-TF of its own, offset += chunk_size, and the response is awaited
SendChunk ==
    /\ InDataLoop
    /\ MoreChunks(Len(dataset_buffer), offset)
    /\ Written(PData(DataPdv(presentation_context_id, idx, Len(dataset_buffer),
                             offset, data_cap)))
    /\ offset' = NextOffset(Len(dataset_buffer), offset, data_cap)
    /\ cur' = [cur EXCEPT !.sent = @ + 1,
                          !.final_sent = IsLast(Len(dataset_buffer), offset, data_cap)]
    /\ s_pc' = "await"
    /\ UNCHANGED <<files, sop_classes_vec, sop_uid_mapping, pcs, data_cap, idx,
                   presentation_context_id, dataset_buffer, stats>>
    /\ UNCHANGED <<to_scu, scu_open, scp_open, link_up, peerVars, outcomes,
                   responses, release>>
    /\ UNCHANGED <<fragVars, recvVars, restVars>>

\* association.send(data)? fails
SendChunkFails ==
    /\ InDataLoop
    /\ MoreChunks(Len(dataset_buffer), offset)
    /\ WriteFails
    /\ FileFailed("send")
    /\ UNCHANGED <<files, sop_classes_vec, sop_uid_mapping, pcs, data_cap,
                   presentation_context_id, dataset_buffer, offset>>
    /\ UNCHANGED <<wireVars, peerVars, responses, release, aborted>>
    /\ UNCHANGED <<fragVars, recvVars, restVars>>

\* the while loop is over: Ok(dataset_buffer.len()), and the caller counts
\* the file: successful_transfers += 1, total_bytes += bytes_sent
FileSent ==
    /\ InDataLoop
    /\ ~MoreChunks(Len(dataset_buffer), offset)
    /\ stats' = [stats EXCEPT !.successful_transfers = @ + 1,
                              !.total_bytes = @ + Len(dataset_buffer)]
    /\ outcomes' = Append(outcomes, [ok |-> TRUE, why |-> "sent", file |-> idx,
                                    rec |-> cur])
    /\ cur' = NewCur
    /\ idx' = idx + 1
    /\ s_pc' = "file"
    /\ UNCHANGED <<files, sop_classes_vec, sop_uid_mapping, pcs, data_cap,
                   presentation_context_id, dataset_buffer, offset>>
    /\ UNCHANGED <<wireVars, peerVars, responses, release, aborted>>
    /\ UNCHANGED <<fragVars, recvVars, restVars>>

Awaiting == s_pc = "await"

\* what a response says it answers, and with which status
AnswersFinal(pdu) ==
    /\ pdu.data[1].re.file = idx
    /\ pdu.data[1].re.value_type = "Data"
    /\ pdu.data[1].re.is_last

\* match association.receive()? { Pdu::PData { data } => .. }: the response
\* is logged, not parsed, and the loop goes on
ResponseRead ==
    /\ Awaiting
    /\ Readable
    /\ Head(to_scu).type = "PData"
    /\ to_scu' = Tail(to_scu)
    /\ cur' = [cur EXCEPT !.awaited = @ + 1,
                          !.final_rsp = @ \/ AnswersFinal(Head(to_scu)),
                          !.statuses = @ \cup {Head(to_scu).data[1].data.status}]
    /\ s_pc' = "data"
    /\ UNCHANGED <<files, sop_classes_vec, sop_uid_mapping, pcs, data_cap, idx,
                   presentation_context_id, dataset_buffer, offset, stats>>
    /\ UNCHANGED <<to_scp, scu_open, scp_open, link_up, peerVars, outcomes,
                   responses, release, aborted>>
    /\ UNCHANGED <<fragVars, recvVars, restVars>>

\* match association.receive()? { other => warn!(..) }: any other PDU,
\* A-ABORT among them, is logged and the loop goes on
OtherPduRead ==
    /\ Awaiting
    /\ Readable
    /\ Head(to_scu).type # "PData"
    /\ to_scu' = Tail(to_scu)
    /\ cur' = [cur EXCEPT !.awaited = @ + 1]
    /\ aborted' = IF Head(to_scu).type = "AbortRQ" /\ ~aborted.read
                  THEN [read |-> TRUE, file |-> idx, sent |-> 0,
                        mid_file |-> MoreChunks(Len(dataset_buffer), offset)]
                  ELSE aborted
    /\ s_pc' = "data"
    /\ UNCHANGED <<files, sop_classes_vec, sop_uid_mapping, pcs, data_cap, idx,
                   presentation_context_id, dataset_buffer, offset, stats>>
    /\ UNCHANGED <<to_scp, scu_open, scp_open, link_up, peerVars, outcomes,
                   responses, release>>
    /\ UNCHANGED <<fragVars, recvVars, restVars>>

\* association.receive()? fails
ReceiveFails ==
    /\ Awaiting
    /\ ReadFails
    /\ FileFailed("receive")
    /\ UNCHANGED <<files, sop_classes_vec, sop_uid_mapping, pcs, data_cap,
                   presentation_context_id, dataset_buffer, offset>>
    /\ UNCHANGED <<wireVars, peerVars, responses, release, aborted>>
    /\ UNCHANGED <<fragVars, recvVars, restVars>>

\* a loop that may be left for release() with files still to send
FilesDoneOrNot == s_pc = "file"

\* for (idx, file) in files.iter().enumerate() has run out of files
FilesDone == s_pc = "file" /\ idx > Len(files)

\* stats.total_files = files.len(); association.release() sends A-RELEASE-RQ
SendRelease ==
    /\ FilesDone
    /\ stats' = [stats EXCEPT !.total_files = Len(files)]
    /\ Written(ReleaseRQ)
    /\ release' = "sent"
    /\ s_pc' = "release"
    /\ UNCHANGED <<files, sop_classes_vec, sop_uid_mapping, pcs, data_cap, idx,
                   presentation_context_id, dataset_buffer, offset>>
    /\ UNCHANGED <<to_scu, scu_open, scp_open, link_up, peerVars, cur,
                   outcomes, responses>>
    /\ UNCHANGED <<fragVars, recvVars, restVars>>

\* .. or fails to: warn!("Failed to properly release association"), the
\* socket is shut down and Ok(stats) is returned
SendReleaseFails ==
    /\ FilesDone
    /\ WriteFails
    /\ stats' = [stats EXCEPT !.total_files = Len(files)]
    /\ release' = "send_failed"
    /\ scu_open' = FALSE
    /\ s_pc' = "done"
    /\ UNCHANGED <<files, sop_classes_vec, sop_uid_mapping, pcs, data_cap, idx,
                   presentation_context_id, dataset_buffer, offset>>
    /\ UNCHANGED <<to_scp, to_scu, scp_open, link_up, peerVars, cur, outcomes,
                   responses, aborted>>
    /\ UNCHANGED <<fragVars, recvVars, restVars>>

\* release() reads one PDU, A-RELEASE-RP or not, shuts the socket down and
\* send_files_blocking returns Ok(stats)
ReleaseReplyRead ==
    /\ s_pc = "release"
    /\ Readable
    /\ to_scu' = Tail(to_scu)
    /\ release' = Head(to_scu).type
    /\ scu_open' = FALSE
    /\ s_pc' = "done"
    /\ UNCHANGED <<files, sop_classes_vec, sop_uid_mapping, pcs, data_cap, idx,
                   presentation_context_id, dataset_buffer, offset, stats>>
    /\ UNCHANGED <<to_scp, scp_open, link_up, peerVars, cur, outcomes,
                   responses, aborted>>
    /\ UNCHANGED <<fragVars, recvVars, restVars>>

\* .. or the read fails
ReleaseReplyFails ==
    /\ s_pc = "release"
    /\ ReadFails
    /\ release' = "read_failed"
    /\ scu_open' = FALSE
    /\ s_pc' = "done"
    /\ UNCHANGED <<files, sop_classes_vec, sop_uid_mapping, pcs, data_cap, idx,
                   presentation_context_id, dataset_buffer, offset, stats>>
    /\ UNCHANGED <<to_scp, to_scu, scp_open, link_up, peerVars, cur, outcomes,
                   responses, aborted>>
    /\ UNCHANGED <<fragVars, recvVars, restVars>>

\* the TCP connection is lost: what was in flight is gone
LinkDown ==
    /\ link_up
    /\ s_pc \notin {"start", "done", "failed", "idle"}
    /\ link_up' = FALSE
    /\ to_scp' = <<>>
    /\ to_scu' = <<>>
    /\ UNCHANGED <<sendVars, scu_open, scp_open, peerVars, histVars>>
    /\ UNCHANGED <<fragVars, recvVars, restVars>>

\* ------------------------------------------- the Receiver's receive loop
\* DicomTransfer::new(presentation_context_id)
NewTransfer(pc_id) ==
    [command_received |-> FALSE, dataset_chunks |-> <<>>, total_bytes |-> 0,
     presentation_context_id |-> pc_id, of |-> [file |-> 0, len |-> 0]]

\* a buffer that takes each new chunk in front of the earlier ones
AddChunkInFront(transfer, pdv) ==
    [transfer EXCEPT !.total_bytes = @ + Len(pdv.data),
                     !.dataset_chunks = <<pdv.data>> \o @,
                     !.of = pdv.of]

\* DicomTransfer::add_chunk
AddChunk(transfer, pdv) ==
    [transfer EXCEPT !.total_bytes = @ + Len(pdv.data),
                     !.dataset_chunks = Append(@, pdv.data),
                     !.of = pdv.of]

\* DicomTransfer::reconstruct_dataset: the chunks, in order, end to end
RECURSIVE ConcatFrom(_, _)
ConcatFrom(chunks, i) ==
    IF i > Len(chunks) THEN <<>> ELSE chunks[i] \o ConcatFrom(chunks, i + 1)

\* a reconstruction that keeps only the chunk that arrived last
ReconstructLastChunk(transfer) ==
    IF transfer.dataset_chunks = <<>> THEN <<>>
    ELSE transfer.dataset_chunks[Len(transfer.dataset_chunks)]

ReconstructDataset(transfer) == ConcatFrom(transfer.dataset_chunks, 1)

\* transfers.entry(pc_id).or_insert_with(|| DicomTransfer::new(pc_id))
OrInsert(trs, pc_id) ==
    IF pc_id \in DOMAIN trs THEN trs ELSE (pc_id :> NewTransfer(pc_id)) @@ trs

\* the transfer left in the map after its dataset was written
RemoveNothing(trs, pc_id) == trs

\* transfers.remove(&pc_id)
Remove(trs, pc_id) ==
    IF DOMAIN trs \subseteq {pc_id} THEN <<>>
    ELSE [k \in DOMAIN trs \ {pc_id} |-> trs[k]]

\* the file std::fs::write(&file_path, &complete_dataset) leaves behind
SavedFile(transfer, complete) ==
    [pc_id |-> transfer.presentation_context_id,
     data |-> ReconstructDataset(transfer), of |-> transfer.of,
     complete |-> complete, command_received |-> transfer.command_received]

\* the body of `for (i, pdata_value) in data.iter().enumerate()` for one
\* PDV: the transfers afterwards and the files written
HandlePdv(st, pdv) ==
    LET pc_id == pdv.presentation_context_id
        trs == OrInsert(st.transfers, pc_id)
    IN  IF pdv.value_type = "Command"
        THEN [transfers |-> [trs EXCEPT ![pc_id].command_received = TRUE],
              written |-> st.written]
        ELSE LET transfer == AddChunk(trs[pc_id], pdv) IN
             IF pdv.is_last
             THEN [transfers |-> Remove(trs, pc_id),
                   written |-> Append(st.written, SavedFile(transfer, TRUE))]
             ELSE [transfers |-> [trs EXCEPT ![pc_id] = transfer],
                   written |-> st.written]

RECURSIVE HandlePdvsFrom(_, _, _)
HandlePdvsFrom(st, data, i) ==
    IF i > Len(data) THEN st
    ELSE HandlePdvsFrom(HandlePdv(st, data[i]), data, i + 1)

HandlePData(trs, data) ==
    HandlePdvsFrom([transfers |-> trs, written |-> <<>>], data, 1)

\* response_data, as its comments read it: C-STORE-RSP, Message ID Being
\* Responded To = 1, Status = Success; no Affected SOP Instance UID
response_data ==
    [command_field |-> "C-STORE-RSP", message_id_being_responded_to |-> 1,
     status |-> 0, affected_sop_instance_uid |-> <<>>]

\* send_c_store_response: the hard-coded response_data, on the context of
\* the first PDV of the P-DATA-TF it answers (or 1)
CStoreResponse(data) ==
    [presentation_context_id |->
         IF data # <<>> THEN data[1].presentation_context_id ELSE 1,
     is_last |-> TRUE, value_type |-> "Command",
     data |-> response_data,
     re |-> IF data # <<>>
            THEN [file |-> data[1].of.file, value_type |-> data[1].value_type,
                  is_last |-> data[1].is_last]
            ELSE [file |-> 0, value_type |-> "none", is_last |-> FALSE]]

\* association.send() by the peer: the PDU reaches the Sender's queue while
\* the connection is intact (a failed send is logged and ignored)
Reply(pdu) ==
    to_scu' = IF link_up THEN Append(to_scu, pdu) ELSE to_scu

\* server_options.establish(): promiscuous, with both proposed transfer
\* syntaxes supported, the Receiver accepts every context proposed
Negotiated == EstablishedWith(1..Len(sop_classes_vec))

\* history: the payloads of the Data PDVs read on each context since its
\* last final one, end to end (a context is in the domain once it has
\* read a Data PDV that was not final)
RECURSIVE AbsorbFrom(_, _, _)
AbsorbFrom(abs, data, i) ==
    IF i > Len(data) THEN abs
    ELSE LET pdv == data[i]
             pc_id == pdv.presentation_context_id
             sofar == IF pc_id \in DOMAIN abs THEN abs[pc_id] ELSE <<>>
             others == [k \in DOMAIN abs \ {pc_id} |-> abs[k]]
         IN  IF pdv.value_type # "Data" THEN AbsorbFrom(abs, data, i + 1)
             ELSE IF pdv.is_last
                  THEN AbsorbFrom(IF DOMAIN others = {} THEN <<>> ELSE others,
                                  data, i + 1)
                  ELSE AbsorbFrom((pc_id :> (sofar \o pdv.data)) @@ others,
                                  data, i + 1)

\* history: what a response answered, what it said, and whether the
\* P-DATA-TF it answers was one the Receiver could not handle (a dataset
\* it failed to write, a command other than C-STORE-RQ)
Answer(data, written, write_ok) ==
    [file |-> CStoreResponse(data).re.file,
     value_type |-> CStoreResponse(data).re.value_type,
     is_last |-> CStoreResponse(data).re.is_last,
     presentation_context_id |-> CStoreResponse(data).presentation_context_id,
     rsp |-> CStoreResponse(data).data,
     unhandled |->
        \/ written # <<>> /\ ~write_ok
        \/ \E i \in DOMAIN data :
              /\ data[i].value_type = "Command"
              /\ data[i].data.command_field # "C-STORE-RQ"]

\* Pdu::PData { data }: every PDV is handled, completed datasets are written
\* (the write may fail), then one response is sent for the P-DATA-TF
ReceiverPData(write_ok) ==
    /\ r_pc = "loop"
    /\ to_scp # <<>>
    /\ Head(to_scp).type = "PData"
    /\ LET data == Head(to_scp).data
           st == HandlePData(transfers, data)
       IN  /\ transfers' = st.transfers
           /\ write_ok \/ st.written # <<>>
           /\ saved' = IF write_ok THEN saved \o st.written ELSE saved
           /\ Reply(PData(CStoreResponse(data)))
           /\ responses' = Append(responses,
                                  Answer(data, st.written, write_ok))
           /\ absorbed' = AbsorbFrom(absorbed, data, 1)
    /\ to_scp' = Tail(to_scp)
    /\ UNCHANGED <<sendVars, scu_open, scp_open, link_up, r_pc, cur, outcomes,
                   release, aborted, closed_by>>
    /\ UNCHANGED <<fragVars, recvVars, scuVars, farVars>>

\* Pdu::ReleaseRQ: A-RELEASE-RP is sent, break; the association is dropped
ReceiverRelease ==
    /\ r_pc = "loop"
    /\ to_scp # <<>>
    /\ Head(to_scp).type = "ReleaseRQ"
    /\ to_scp' = Tail(to_scp)
    /\ Reply(ReleaseRP)
    /\ r_pc' = "closed"
    /\ scp_open' = FALSE
    /\ closed_by' = "release"
    /\ UNCHANGED <<sendVars, scu_open, link_up, transfers, saved, histVars,
                   absorbed>>
    /\ UNCHANGED <<fragVars, recvVars, scuVars, farVars>>

\* the transfers the error arm saves: those with at least one chunk
RECURSIVE PendingFrom(_, _)
PendingFrom(trs, ids) ==
    IF ids = {} THEN <<>>
    ELSE LET pc_id == CHOOSE k \in ids : \A j \in ids : k <= j
             rest == PendingFrom(trs, ids \ {pc_id})
         IN  IF trs[pc_id].dataset_chunks # <<>>
             THEN <<SavedFile(trs[pc_id], FALSE)>> \o rest ELSE rest

PendingFiles(trs) == PendingFrom(trs, DOMAIN trs)

\* Err(e): the pending transfers are written (the write may fail), break
ReceiverError(write_ok) ==
    /\ r_pc = "loop"
    /\ to_scp = <<>>
    /\ ~link_up \/ ~scu_open
    /\ write_ok \/ PendingFiles(transfers) # <<>>
    /\ saved' = IF write_ok THEN saved \o PendingFiles(transfers) ELSE saved
    /\ r_pc' = "closed"
    /\ scp_open' = FALSE
    /\ closed_by' = IF write_ok THEN "error" ELSE "error_unwritten"
    /\ UNCHANGED <<sendVars, to_scp, to_scu, scu_open, link_up, transfers,
                   histVars, absorbed>>
    /\ UNCHANGED <<fragVars, recvVars, scuVars, farVars>>

\* ------------------------------------------------- a conformant SCP peer
\* 0x0000 Success, 0xB000 Warning, 0xA700 Refused, 0xC000 Cannot understand
Statuses == {0, 45056, 42752, 49152}

\* the acceptor may accept any non-empty part of the proposed contexts
NegotiatedAny ==
    \E acc \in SUBSET (1..Len(sop_classes_vec)) : EstablishedWith(acc)

ScpResponse(pdv, status) ==
    [presentation_context_id |-> pdv.presentation_context_id,
     is_last |-> TRUE, value_type |-> "Command",
     data |-> [command_field |-> "C-STORE-RSP",
               message_id_being_responded_to |-> pdv.of.file,
               status |-> status],
     re |-> [file |-> pdv.of.file, value_type |-> pdv.value_type,
             is_last |-> pdv.is_last]]

ScpHeadIs(final) ==
    /\ r_pc = "loop"
    /\ to_scp # <<>>
    /\ Head(to_scp).type = "PData"
    /\ LET pdv == Head(to_scp).data[1] IN
         final = (pdv.value_type = "Data" /\ pdv.is_last)

\* the peer reads a Command PDV or a Data PDV that is not the last
ScpAbsorb ==
    /\ ScpHeadIs(FALSE)
    /\ to_scp' = Tail(to_scp)
    /\ UNCHANGED <<sendVars, to_scu, scu_open, scp_open, link_up, peerVars,
                   histVars>>
    /\ UNCHANGED <<fragVars, recvVars, restVars>>

\* the peer reads the last Data PDV of a message and answers it
ScpRespond(status) ==
    /\ ScpHeadIs(TRUE)
    /\ to_scp' = Tail(to_scp)
    /\ Reply(PData(ScpResponse(Head(to_scp).data[1], status)))
    /\ UNCHANGED <<sendVars, scu_open, scp_open, link_up, peerVars, histVars>>
    /\ UNCHANGED <<fragVars, recvVars, restVars>>

\* the peer reads A-RELEASE-RQ, answers A-RELEASE-RP and closes
ScpRelease ==
    /\ r_pc = "loop"
    /\ to_scp # <<>>
    /\ Head(to_scp).type = "ReleaseRQ"
    /\ to_scp' = Tail(to_scp)
    /\ Reply(ReleaseRP)
    /\ r_pc' = "closed"
    /\ scp_open' = FALSE
    /\ UNCHANGED <<sendVars, scu_open, link_up, transfers, saved, histVars>>
    /\ UNCHANGED <<fragVars, recvVars, restVars>>

\* the peer sends A-ABORT and closes
ScpAbort ==
    /\ r_pc = "loop"
    /\ scu_open
    /\ Reply(AbortRQ)
    /\ r_pc' = "closed"
    /\ scp_open' = FALSE
    /\ UNCHANGED <<sendVars, to_scp, scu_open, link_up, transfers, saved,
                   histVars>>
    /\ UNCHANGED <<fragVars, recvVars, restVars>>

\* `_ =>`: a PDU that is neither P-DATA-TF nor A-RELEASE-RQ (A-ABORT among
\* them) is logged and the loop goes on to the next receive()
ReceiverOther ==
    /\ r_pc = "loop"
    /\ to_scp # <<>>
    /\ Head(to_scp).type \notin {"PData", "ReleaseRQ"}
    /\ to_scp' = Tail(to_scp)
    /\ UNCHANGED <<sendVars, to_scu, scu_open, scp_open, link_up, peerVars,
                   histVars>>
    /\ UNCHANGED <<fragVars, recvVars, restVars>>

\* ------------------------------- an association requestor, any DICOM SCU
\* the contexts it negotiated with the (promiscuous) Receiver
ScuContexts == {WireContextId(i) : i \in 1..MaxSopClasses}

\* the DIMSE commands it may send
ScuCommands == {"C-STORE-RQ", "C-ECHO-RQ"}

\* the PDVs it may put into its n-th P-DATA-TF: a command, or a piece of a
\* dataset whose one byte tells which PDU carried it
ScuPdvs(n) ==
    {[presentation_context_id |-> pc_id, value_type |-> "Command",
      is_last |-> TRUE,
      data |-> [command_field |-> c, message_id |-> n,
                affected_sop_instance_uid |-> SopInstanceUid(n)],
      of |-> [file |-> n, len |-> 0]] : pc_id \in ScuContexts, c \in ScuCommands}
    \cup
    {[presentation_context_id |-> pc_id, value_type |-> "Data",
      is_last |-> l, data |-> <<n>>,
      of |-> [file |-> n, len |-> 0]] : pc_id \in ScuContexts, l \in BOOLEAN}

\* the association is established, nothing has been sent on it
ScuInit ==
    /\ files = <<>> /\ sop_classes_vec = <<>> /\ sop_uid_mapping = <<>>
    /\ data_cap = 1 /\ pcs = <<>> /\ s_pc = "idle" /\ idx = 1
    /\ presentation_context_id = 0 /\ dataset_buffer = <<>> /\ offset = 0
    /\ stats = NoStats
    /\ to_scp = <<>> /\ to_scu = <<>>
    /\ scu_open = TRUE /\ scp_open = TRUE /\ link_up = TRUE
    /\ r_pc = "loop" /\ transfers = <<>> /\ saved = <<>>
    /\ cur = NewCur /\ outcomes = <<>> /\ responses = <<>>
    /\ release = "none" /\ aborted = NoAbort
    /\ absorbed = <<>> /\ closed_by = "none"
    /\ scu_n = 0

\* it writes a P-DATA-TF with one PDV
ScuSend(pdv) ==
    /\ scu_open /\ link_up
    /\ release = "none"
    /\ scu_n < MaxPdus
    /\ to_scp' = IF scp_open THEN Append(to_scp, PData(pdv)) ELSE to_scp
    /\ scu_n' = scu_n + 1
    /\ UNCHANGED <<sendVars, to_scu, scu_open, scp_open, link_up, peerVars,
                   histVars, obsVars>>
    /\ UNCHANGED <<fragVars, recvVars, farVars>>

\* it requests the release of the association
ScuRelease ==
    /\ scu_open /\ link_up
    /\ release = "none"
    /\ to_scp' = IF scp_open THEN Append(to_scp, ReleaseRQ) ELSE to_scp
    /\ release' = "sent"
    /\ UNCHANGED <<sendVars, to_scu, scu_open, scp_open, link_up, peerVars,
                   cur, outcomes, responses, aborted, obsVars, scuVars>>
    /\ UNCHANGED <<fragVars, recvVars, farVars>>

\* it aborts: A-ABORT is written and the socket closed
ScuAbort ==
    /\ scu_open /\ link_up
    /\ release = "none"
    /\ to_scp' = IF scp_open THEN Append(to_scp, AbortRQ) ELSE to_scp
    /\ scu_open' = FALSE
    /\ UNCHANGED <<sendVars, to_scu, scp_open, link_up, peerVars, histVars,
                   obsVars, scuVars>>
    /\ UNCHANGED <<fragVars, recvVars, farVars>>

\* it aborts and, as the requestor of an abort does, leaves the closing of
\* the connection to the Receiver: A-ABORT is written, nothing after it
ScuAbortAwaitsClose ==
    /\ scu_open /\ link_up
    /\ release = "none"
    /\ to_scp' = IF scp_open THEN Append(to_scp, AbortRQ) ELSE to_scp
    /\ release' = "aborted"
    /\ UNCHANGED <<sendVars, to_scu, scu_open, scp_open, link_up, peerVars,
                   cur, outcomes, responses, aborted, obsVars, scuVars>>
    /\ UNCHANGED <<fragVars, recvVars, farVars>>

\* it closes the socket, or the connection breaks: the Receiver's next
\* receive() past what was written fails
ScuClose ==
    /\ scu_open
    /\ scu_open' = FALSE
    /\ UNCHANGED <<sendVars, to_scp, to_scu, scp_open, link_up, peerVars,
                   histVars, obsVars, scuVars>>
    /\ UNCHANGED <<fragVars, recvVars, farVars>>

\* --------------------------------- the Sender's session: main, the workers
\* the study_instance_uid values, named in the order the index meets them
StudyUids == 1..MaxStudies

\* an index of n files: the first file's study is 1, and a file belongs to
\* a study met before it or to the next new one
Indexes(n) ==
    {fs \in [1..n -> StudyUids] :
        /\ fs[1] = 1
        /\ \A i \in 2..n : \E j \in 1..(i - 1) : fs[i] <= fs[j] + 1}

\* studies.entry(file.study_instance_uid).or_insert_with(Vec::new).push(file)
\* for every file, in index order: study uid -> its files (by position)
RECURSIVE GroupFrom(_, _, _)
GroupFrom(studies, fs, i) ==
    IF i > Len(fs) THEN studies
    ELSE LET uid == fs[i]
             group == IF uid \in DOMAIN studies THEN studies[uid] ELSE <<>>
         IN  GroupFrom((uid :> Append(group, i)) @@ studies, fs, i + 1)

GroupByStudy(fs) == GroupFrom(<<>>, fs, 1)

\* studies.into_iter().collect(): the (uid, files) pairs in the map's order
StudyChunks(studies, order) ==
    [k \in DOMAIN order |->
        [study_uid |-> order[k], files |-> studies[order[k]]]]

\* chunk_size = (study_chunks.len() + args.threads - 1) / args.threads
StudyChunkSize(n, t) == (n + t - 1) \div t

\* the chunks study_chunks.chunks(chunk_size) yields
NumChunks(n, chunk_size) == (n + chunk_size - 1) \div chunk_size

\* a chunk that begins on the last study of the one before it
ChunkOverlapping(v, chunk_size, thread_id) ==
    SubSeq(v, IF thread_id = 0 THEN 1 ELSE thread_id * chunk_size,
           Min((thread_id + 1) * chunk_size, Len(v)))

\* the chunk enumerate() numbers thread_id (0-based)
Chunk(v, chunk_size, thread_id) ==
    SubSeq(v, thread_id * chunk_size + 1,
           Min((thread_id + 1) * chunk_size, Len(v)))

\* the thread_id values enumerate() can hand out
ThreadIds == 0..(MaxThreads - 1)

\* TransferStats::new()
NewStats ==
    [total_files |-> 0, successful_transfers |-> 0, failed_transfers |-> 0,
     total_bytes |-> 0, total_time |-> 0, transfer_times |-> <<>>]

\* the bytes send_single_file_simple reports for a file
BytesSent(i) == Len(Bytes(i, MaxDataLen))

\* send_studies_worker, Ok(stats) arm: total_time is not carried over
WorkerMerge(combined, st) ==
    [combined EXCEPT
        !.total_files = @ + st.total_files,
        !.successful_transfers = @ + st.successful_transfers,
        !.failed_transfers = @ + st.failed_transfers,
        !.total_bytes = @ + st.total_bytes,
        !.transfer_times = @ \o st.transfer_times]

\* main, Ok(stats) arm: as above, and total_time becomes the larger one
MainMerge(combined, st) ==
    [WorkerMerge(combined, st) EXCEPT
        !.total_time = IF combined.total_time < st.total_time
                       THEN st.total_time ELSE combined.total_time]

\* send_studies_worker(thread_id, chunk, ..) as spawned
NewWorker(chunk) ==
    [studies |-> chunk, pos |-> 1, pc |-> "next", combined_stats |-> NewStats,
     start_time |-> 0, stats |-> NewStats, file |-> 1, file_start |-> 0]

\* main after indexing and grouping: nothing spawned yet
OrchInit ==
    /\ \E n \in 1..MaxIndexed : dicom_files \in Indexes(n)
    /\ threads \in 1..MaxThreads
    /\ \E order \in Orders(DOMAIN GroupByStudy(dicom_files)) :
         study_chunks = StudyChunks(GroupByStudy(dicom_files), order)
    /\ o_pc = "grouped"
    /\ workers = <<>>
    /\ now = 0
    /\ joined = 0
    /\ combined_stats = NewStats
    /\ handed = [i \in DOMAIN dicom_files |-> 0]
    /\ sent = [i \in DOMAIN dicom_files |-> 0]
    /\ produced = {}

OrchIdle ==
    /\ dicom_files = <<>> /\ threads = 1 /\ study_chunks = <<>>
    /\ o_pc = "idle" /\ workers = <<>> /\ now = 0 /\ joined = 0
    /\ combined_stats = NewStats /\ handed = <<>> /\ sent = <<>>
    /\ produced = {}

\* for (thread_id, chunk) in study_chunks.chunks(chunk_size).enumerate():
\* one worker is spawned per chunk
SpawnWorkers ==
    /\ o_pc = "grouped"
    /\ LET chunk_size == StudyChunkSize(Len(study_chunks), threads)
           n == NumChunks(Len(study_chunks), chunk_size)
       IN  workers' = [thread_id \in 0..(n - 1) |->
                         NewWorker(Chunk(study_chunks, chunk_size, thread_id))]
    /\ o_pc' = "joining"
    /\ UNCHANGED <<dicom_files, threads, study_chunks, now, joined,
                   combined_stats, handed, sent, produced>>
    /\ UNCHANGED offOrch

Running(w) == o_pc \in {"joining", "done"} /\ w \in DOMAIN workers

AtStudy(w) ==
    /\ Running(w)
    /\ workers[w].pc = "next"
    /\ workers[w].pos <= Len(workers[w].studies)

FilesOfStudy(w) == workers[w].studies[workers[w].pos].files

Handed(fs) ==
    [i \in DOMAIN handed |->
        IF \E k \in DOMAIN fs : fs[k] = i THEN handed[i] + 1 ELSE handed[i]]

\* client.send_files(files) is called and the association is established
StudyEstablished(w) ==
    /\ AtStudy(w)
    /\ handed' = Handed(FilesOfStudy(w))
    /\ workers' = [workers EXCEPT ![w].pc = "assoc",
                                  ![w].start_time = now,
                                  ![w].stats = NewStats,
                                  ![w].file = 1]
    /\ UNCHANGED <<dicom_files, threads, study_chunks, o_pc, now, joined,
                   combined_stats, sent, produced>>
    /\ UNCHANGED offOrch

\* a worker that hands the Err of send_files on to main with `?`: it
\* returns at once, and main only logs "Thread failed"
StudyFailsEndsWorker(w) ==
    /\ AtStudy(w)
    /\ handed' = Handed(FilesOfStudy(w))
    /\ workers' = [workers EXCEPT ![w].combined_stats = NewStats,
                                  ![w].pc = "returned"]
    /\ UNCHANGED <<dicom_files, threads, study_chunks, o_pc, now, joined,
                   combined_stats, sent, produced>>
    /\ UNCHANGED offOrch

\* client.send_files(files) returns Err (the association is not
\* established): failed_transfers += files.len(), on to the next study
StudyFails(w) ==
    /\ AtStudy(w)
    /\ handed' = Handed(FilesOfStudy(w))
    /\ workers' = [workers EXCEPT
           ![w].combined_stats.failed_transfers = @ + Len(FilesOfStudy(w)),
           ![w].pos = @ + 1]
    /\ UNCHANGED <<dicom_files, threads, study_chunks, o_pc, now, joined,
                   combined_stats, sent, produced>>
    /\ UNCHANGED offOrch

\* the file loop of send_files_blocking takes up the next file:
\* file_start = Instant::now(), send_single_file_simple is called
StudyFileStart(w) ==
    /\ Running(w)
    /\ workers[w].pc = "assoc"
    /\ workers[w].file <= Len(FilesOfStudy(w))
    /\ sent' = [sent EXCEPT ![FilesOfStudy(w)[workers[w].file]] = @ + 1]
    /\ workers' = [workers EXCEPT ![w].pc = "file", ![w].file_start = now]
    /\ UNCHANGED <<dicom_files, threads, study_chunks, o_pc, now, joined,
                   combined_stats, handed, produced>>
    /\ UNCHANGED offOrch

\* send_single_file_simple returns: Ok(bytes_sent) or Err(e)
StudyFileEnd(w, ok) ==
    /\ Running(w)
    /\ workers[w].pc = "file"
    /\ LET i == FilesOfStudy(w)[workers[w].file]
           transfer_time == now - workers[w].file_start
       IN  workers' =
             IF ok
             THEN [workers EXCEPT
                     ![w].stats.successful_transfers = @ + 1,
                     ![w].stats.total_bytes = @ + BytesSent(i),
                     ![w].stats.transfer_times = Append(@, transfer_time),
                     ![w].file = @ + 1,
                     ![w].pc = "assoc"]
             ELSE [workers EXCEPT
                     ![w].stats.failed_transfers = @ + 1,
                     ![w].file = @ + 1,
                     ![w].pc = "assoc"]
    /\ UNCHANGED <<dicom_files, threads, study_chunks, o_pc, now, joined,
                   combined_stats, handed, sent, produced>>
    /\ UNCHANGED offOrch

\* the file loop is through: total_files, release, send_files returns
\* Ok(stats) with total_time = start_time.elapsed(), and the worker adds
\* the association's numbers to its own
StudyDone(w) ==
    /\ Running(w)
    /\ workers[w].pc = "assoc"
    /\ workers[w].file > Len(FilesOfStudy(w))
    /\ LET result == [workers[w].stats EXCEPT
                         !.total_files = Len(FilesOfStudy(w))]
           returned == [result EXCEPT
                         !.total_time = now - workers[w].start_time]
       IN  /\ workers' = [workers EXCEPT
                 ![w].combined_stats = WorkerMerge(@, returned),
                 ![w].stats = returned,
                 ![w].pos = @ + 1,
                 ![w].pc = "next"]
           /\ produced' = produced \cup
                             {[by |-> "send_files", stats |-> returned]}
    /\ UNCHANGED <<dicom_files, threads, study_chunks, o_pc, now, joined,
                   combined_stats, handed, sent>>
    /\ UNCHANGED offOrch

\* the clock moves on while a session is under way
Tick ==
    /\ o_pc = "joining"
    /\ now < MaxClock
    /\ now' = now + 1
    /\ UNCHANGED <<dicom_files, threads, study_chunks, o_pc, workers, joined,
                   combined_stats, handed, sent, produced>>
    /\ UNCHANGED offOrch

\* the worker is through its studies: Ok(combined_stats)
WorkerReturns(w) ==
    /\ Running(w)
    /\ workers[w].pc = "next"
    /\ workers[w].pos > Len(workers[w].studies)
    /\ workers' = [workers EXCEPT ![w].pc = "returned"]
    /\ produced' = produced \cup {[by |-> "send_studies_worker",
                                  stats |-> workers[w].combined_stats]}
    /\ UNCHANGED <<dicom_files, threads, study_chunks, o_pc, now, joined,
                   combined_stats, handed, sent>>
    /\ UNCHANGED offOrch

\* for handle in handles { match handle.await? { Ok(stats) => ... } }
JoinWorker ==
    /\ o_pc = "joining"
    /\ joined \in DOMAIN workers
    /\ workers[joined].pc = "returned"
    /\ combined_stats' = MainMerge(combined_stats, workers[joined].combined_stats)
    /\ joined' = joined + 1
    /\ UNCHANGED <<dicom_files, threads, study_chunks, o_pc, workers, now,
                   handed, sent, produced>>
    /\ UNCHANGED offOrch

\* every handle is joined: combined_stats goes into the SessionSummary
SessionDone ==
    /\ o_pc = "joining"
    /\ joined \notin DOMAIN workers
    /\ o_pc' = "done"
    /\ produced' = produced \cup {[by |-> "main", stats |-> combined_stats]}
    /\ UNCHANGED <<dicom_files, threads, study_chunks, workers, now, joined,
                   combined_stats, handed, sent>>
    /\ UNCHANGED offOrch

\* ------------------------------------------- the names of the files written
\* the connections the Receiver serves at a time
NameConns == 1..max_connections

\* DicomTransfer::new(presentation_context_id) at the clock reading t
StampedTransfer(pc_id, t) ==
    [presentation_context_id |-> pc_id, started_at |-> t, dataset_chunks |-> 0]

\* format!("received_{}_{}.dcm", transfer.started_at.format(..), pc_id)
Filename(transfer) ==
    <<"received", transfer.started_at, transfer.presentation_context_id>>

\* the names the error arm writes: one per transfer that holds chunks
RECURSIVE PendingNamesFrom(_, _)
PendingNamesFrom(trs, ids) ==
    IF ids = {} THEN <<>>
    ELSE LET pc_id == CHOOSE k \in ids : \A j \in ids : k <= j
             rest == PendingNamesFrom(trs, ids \ {pc_id})
         IN  IF trs[pc_id].dataset_chunks > 0
             THEN <<Filename(trs[pc_id])>> \o rest ELSE rest

NamesInit ==
    /\ utc_now = 0
    /\ conn_state = [c \in NameConns |-> "idle"]
    /\ conn_transfers = [c \in NameConns |-> <<>>]
    /\ conn_handled = 0
    /\ written_names = <<>>

NamesIdle == NamesInit

\* the association is established: let mut transfers = HashMap::new()
NameAccept(c) ==
    /\ conn_state[c] = "idle"
    /\ conn_state' = [conn_state EXCEPT ![c] = "loop"]
    /\ conn_transfers' = [conn_transfers EXCEPT ![c] = <<>>]
    /\ UNCHANGED <<utc_now, conn_handled, written_names>>
    /\ UNCHANGED offNames

\* one PDV of a P-DATA-TF on connection c: the transfer of its context is
\* created at the present clock reading unless there is one; a final Data
\* PDV writes the file and removes the transfer
NamePdv(c, pc_id, value_type, is_last) ==
    /\ conn_state[c] = "loop"
    /\ conn_handled < MaxPdus
    /\ value_type = "Command" => is_last
    /\ LET trs == IF pc_id \in DOMAIN conn_transfers[c] THEN conn_transfers[c]
                  ELSE (pc_id :> StampedTransfer(pc_id, utc_now))
                       @@ conn_transfers[c]
           transfer == [trs[pc_id] EXCEPT !.dataset_chunks = @ + 1]
       IN  /\ conn_transfers' =
                [conn_transfers EXCEPT ![c] =
                    IF value_type = "Command" THEN trs
                    ELSE IF is_last THEN Remove(trs, pc_id)
                    ELSE [trs EXCEPT ![pc_id] = transfer]]
           /\ written_names' =
                IF value_type = "Data" /\ is_last
                THEN Append(written_names, Filename(transfer))
                ELSE written_names
    /\ conn_handled' = conn_handled + 1
    /\ UNCHANGED <<utc_now, conn_state>>
    /\ UNCHANGED offNames

\* Err(e) on connection c: the pending transfers are written, break
NameError(c) ==
    /\ conn_state[c] = "loop"
    /\ written_names' = written_names \o
            PendingNamesFrom(conn_transfers[c], DOMAIN conn_transfers[c])
    /\ conn_state' = [conn_state EXCEPT ![c] = "closed"]
    /\ UNCHANGED <<utc_now, conn_transfers, conn_handled>>
    /\ UNCHANGED offNames

\* Pdu::ReleaseRQ on connection c: release response, break
NameRelease(c) ==
    /\ conn_state[c] = "loop"
    /\ conn_state' = [conn_state EXCEPT ![c] = "closed"]
    /\ UNCHANGED <<utc_now, conn_transfers, conn_handled, written_names>>
    /\ UNCHANGED offNames

\* the permit is back, the next connection is accepted in its place
NameNext(c) ==
    /\ conn_state[c] = "closed"
    /\ conn_handled < MaxPdus
    /\ conn_state' = [conn_state EXCEPT ![c] = "idle"]
    /\ UNCHANGED <<utc_now, conn_transfers, conn_handled, written_names>>
    /\ UNCHANGED offNames

\* the wall clock moves on between two readings, or does not
NameTick ==
    /\ utc_now < MaxClock
    /\ utc_now' = utc_now + 1
    /\ UNCHANGED <<conn_state, conn_transfers, conn_handled, written_names>>
    /\ UNCHANGED offNames

\* ------------------------------- the acceptor of receiver_old.rs negotiates
\* the characters of an AE title field, and the acceptor's own --ae-title
AeChars == {"A", "B", " "}
ae_title == <<"A">>

\* the AE title fields of the wire (16 bytes in DICOM, AeFieldLen here)
AeFields == [1..AeFieldLen -> AeChars]

\* str::trim(): leading and trailing whitespace off
RECURSIVE TrimEnd(_)
TrimEnd(str) ==
    IF str = <<>> \/ str[Len(str)] # " " THEN str
    ELSE TrimEnd(SubSeq(str, 1, Len(str) - 1))

RECURSIVE TrimStart(_)
TrimStart(str) ==
    IF str = <<>> \/ str[1] # " " THEN str ELSE TrimStart(Tail(str))

Trim(str) == TrimStart(TrimEnd(str))

\* what a requestor may put into the transfer-syntax sub-items of a context
RqTransferSyntaxes ==
    {"1.2.840.10008.1.2.1", "1.2.840.10008.1.2.4.50"}

RqTransferSyntaxLists ==
    UNION {[1..n -> RqTransferSyntaxes] : n \in 0..MaxRqSyntaxes}

\* and into the abstract-syntax sub-item: CT Image Storage, or a UID the
\* registry does not hold
RqAbstractSyntaxes == {"1.2.840.10008.5.1.4.1.1.2", "1.2.3.4"}

\* the presentation-context items of a request, ids 1, 3, ..
RqContextLists ==
    UNION {[1..n -> [abstract_syntax : RqAbstractSyntaxes,
                     transfer_syntaxes : RqTransferSyntaxLists]]
           : n \in 0..MaxRqContexts}

\* parse_presentation_context: id, abstract syntax, transfer syntaxes,
\* result: 0
ParsePresentationContexts(items) ==
    [i \in DOMAIN items |->
        [id |-> WireContextId(i), abstract_syntax |-> items[i].abstract_syntax,
         transfer_syntaxes |-> items[i].transfer_syntaxes, result |-> 0]]

\* the PDUs the acceptor may read first: an A-ASSOCIATE-RQ (type 1), one
\* shorter than 68 bytes, or a PDU of another type
AssociateRequests ==
    [pdu_type : {1}, short : {FALSE}, called_ae : AeFields,
     items : RqContextLists]
    \cup [pdu_type : {1}, short : {TRUE}, called_ae : {<<>>}, items : {<<>>}]
    \cup [pdu_type : {4}, short : {FALSE}, called_ae : {<<>>}, items : {<<>>}]

\* evaluate_presentation_context
EvaluatePresentationContext(pc) ==
    IF ~IsSupported(classes, pc.abstract_syntax) THEN 3
    ELSE IF \E i \in DOMAIN pc.transfer_syntaxes :
                \E j \in DOMAIN DefaultTransferSyntaxes :
                    pc.transfer_syntaxes[i] = DefaultTransferSyntaxes[j]
         THEN 0
         ELSE 4

\* for mut pc in presentation_contexts { pc.result = evaluate(..) }
Evaluated(contexts) ==
    [i \in DOMAIN contexts |->
        [contexts[i] EXCEPT !.result = EvaluatePresentationContext(contexts[i])]]

\* send_association_reject(socket, result, source, reason)
AssociateRj(result, source, reason) ==
    [type |-> "A-ASSOCIATE-RJ", result |-> result, source |-> source,
     reason |-> reason]

\* send_association_accept: a 0x21 item for every context with result 0,
\* naming the first transfer syntax of the request's item
AssociateAc(contexts) ==
    [type |-> "A-ASSOCIATE-AC",
     items |->
        LET accepted == SelectSeq(contexts, LAMBDA pc : pc.result = 0)
        IN  [i \in DOMAIN accepted |->
                [id |-> accepted[i].id, result |-> accepted[i].result,
                 transfer_syntax |->
                    IF accepted[i].transfer_syntaxes # <<>>
                    THEN <<accepted[i].transfer_syntaxes[1]>> ELSE <<>>]]]

AccInit ==
    /\ a_rq \in AssociateRequests
    /\ a_pc = "read"
    /\ a_reply = <<>>
    /\ a_association = <<>>

AccIdle ==
    /\ a_rq = <<>> /\ a_pc = "done" /\ a_reply = <<>> /\ a_association = <<>>

\* pdu_header[0] != 0x01: return Ok(None)
AssocNotARequest ==
    /\ a_pc = "read"
    /\ a_rq.pdu_type # 1
    /\ a_pc' = "done"
    /\ UNCHANGED <<a_rq, a_reply, a_association>>
    /\ UNCHANGED offAcc

\* parse_association_request fails: reject (1, 1, 2), return Ok(None)
AssocParseError ==
    /\ a_pc = "read"
    /\ a_rq.pdu_type = 1
    /\ a_rq.short
    /\ a_reply' = Append(a_reply, AssociateRj(1, 1, 2))
    /\ a_pc' = "done"
    /\ UNCHANGED <<a_rq, a_association>>
    /\ UNCHANGED offAcc

\* called_ae != self.ae_title: reject (1, 1, 3), return Ok(None)
AssocCalledAeMismatch ==
    /\ a_pc = "read"
    /\ a_rq.pdu_type = 1
    /\ ~a_rq.short
    /\ Trim(a_rq.called_ae) # ae_title
    /\ a_reply' = Append(a_reply, AssociateRj(1, 1, 3))
    /\ a_pc' = "done"
    /\ UNCHANGED <<a_rq, a_association>>
    /\ UNCHANGED offAcc

\* the contexts are evaluated, A-ASSOCIATE-AC is sent, Ok(Some(ctx))
AssocAccept ==
    /\ a_pc = "read"
    /\ a_rq.pdu_type = 1
    /\ ~a_rq.short
    /\ Trim(a_rq.called_ae) = ae_title
    /\ LET accepted_contexts ==
               Evaluated(ParsePresentationContexts(a_rq.items))
       IN  /\ a_reply' = Append(a_reply, AssociateAc(accepted_contexts))
           /\ a_association' =
                <<[called_ae |-> Trim(a_rq.called_ae),
                   presentation_contexts |-> accepted_contexts]>>
    /\ a_pc' = "done"
    /\ UNCHANGED a_rq
    /\ UNCHANGED offAcc

\* ----------------------------------- main: index, group, send, summarise
\* what obj.element(tag) may yield: Err as <<>>, or <<value>> with the
\* trimmed string; "" is what unwrap_or_default gives for a value that is
\* no string
StudyUidValues == {"", "1.2.3", "1.2.840.113619.2.55.3.604688119"}
OtherUidValues == {"1.2.840.10008.5.1.4.1.1.2"}

Elements(values) == {<<>>} \cup {<<v>> : v \in values}

\* the objects open_file may return for a path (Ok as <<obj>>, Err as <<>>)
OpenedFiles ==
    {<<>>} \cup
    {<<obj>> : obj \in [study : Elements(StudyUidValues),
                         series : Elements(OtherUidValues),
                         sop_instance : Elements(OtherUidValues),
                         sop_class : Elements(OtherUidValues)]}

\* obj.element(tag).map(..).unwrap_or_else(|_| placeholder)
UidOr(element, placeholder) ==
    IF element = <<>> THEN placeholder ELSE element[1]

\* process_dicom_file, Ok(obj) arm: the DicomFile record
DicomFile(obj) ==
    [study_instance_uid |-> UidOr(obj.study, "UNKNOWN_STUDY"),
     series_instance_uid |-> UidOr(obj.series, "UNKNOWN_SERIES"),
     sop_instance_uid |-> UidOr(obj.sop_instance, "UNKNOWN_SOP_INSTANCE"),
     sop_class_uid |-> UidOr(obj.sop_class, "UNKNOWN_SOP_CLASS")]

\* the keys of `studies`, and the files of one of them
StudyKeys(fs) == {fs[i].study_instance_uid : i \in DOMAIN fs}

StudyFiles(fs, study_uid) ==
    SelectSeq(fs, LAMBDA file : file.study_instance_uid = study_uid)

\* &study_uid[..20] is in range
SliceInRange(study_uid) == Len(study_uid) >= 20

\* a file carries a placeholder
HasPlaceholder(file) ==
    \/ file.study_instance_uid = "UNKNOWN_STUDY"
    \/ file.series_instance_uid = "UNKNOWN_SERIES"
    \/ file.sop_instance_uid = "UNKNOWN_SOP_INSTANCE"
    \/ file.sop_class_uid = "UNKNOWN_SOP_CLASS"

MainInit ==
    /\ input_objs \in UNION {[1..n -> OpenedFiles] : n \in 0..MaxObjs}
    /\ indexed = <<>>
    /\ m_pc = "indexing"
    /\ to_send = {}
    /\ m_stats = [total_files |-> 0, successful_transfers |-> 0,
                  failed_transfers |-> 0]

MainIdle ==
    /\ input_objs = <<>> /\ indexed = <<>> /\ m_pc = "idle" /\ to_send = {}
    /\ m_stats = <<>>

\* index_dicom_files takes the next path: process_dicom_file gives
\* Some(dicom_file), pushed, or None for a file open_file cannot read
ProcessDicomFile ==
    /\ m_pc = "indexing"
    /\ input_objs # <<>>
    /\ indexed' = IF Head(input_objs) = <<>> THEN indexed
                  ELSE Append(indexed, DicomFile(Head(input_objs)[1]))
    /\ input_objs' = Tail(input_objs)
    /\ UNCHANGED <<m_pc, to_send, m_stats>>
    /\ UNCHANGED offMain

\* index_dicom_files returns: no file is "No DICOM files found", Ok(())
IndexDone ==
    /\ m_pc = "indexing"
    /\ input_objs = <<>>
    /\ m_pc' = IF indexed = <<>> THEN "none" ELSE "found"
    /\ UNCHANGED <<input_objs, indexed, to_send, m_stats>>
    /\ UNCHANGED offMain

\* Step 2: the files are grouped by study_instance_uid and every study is
\* printed with the first 20 bytes of its UID; a slice out of range panics
GroupStudies ==
    /\ m_pc = "found"
    /\ IF \A study_uid \in StudyKeys(indexed) : SliceInRange(study_uid)
       THEN m_pc' = "grouped" /\ to_send' = StudyKeys(indexed)
       ELSE m_pc' = "panicked" /\ to_send' = {}
    /\ UNCHANGED <<input_objs, indexed, m_stats>>
    /\ UNCHANGED offMain

\* a worker sends a study: send_files is Ok with `ok` of the files sent, or
\* Err; the worker's counts go into combined_stats when it is joined
SendStudy(study_uid, established, ok) ==
    /\ m_pc = "grouped"
    /\ study_uid \in to_send
    /\ LET n == Len(StudyFiles(indexed, study_uid)) IN
       /\ ok <= n
       /\ m_stats' =
            IF established
            THEN [total_files |-> m_stats.total_files + n,
                  successful_transfers |-> m_stats.successful_transfers + ok,
                  failed_transfers |-> m_stats.failed_transfers + (n - ok)]
            ELSE [m_stats EXCEPT !.failed_transfers = @ + n]
    /\ to_send' = to_send \ {study_uid}
    /\ UNCHANGED <<input_objs, indexed, m_pc>>
    /\ UNCHANGED offMain

\* Step 5: the summary is written, Ok(())
WriteSummary ==
    /\ m_pc = "grouped"
    /\ to_send = {}
    /\ m_pc' = "summary"
    /\ UNCHANGED <<input_objs, indexed, to_send, m_stats>>
    /\ UNCHANGED offMain

\* --------------------------------------------- a caller of the catalogs
\* the elements of a Vec
Range(vec) == {vec[i] : i \in DOMAIN vec}

\* the uids a caller may ask about: those of the two tables and one of neither
QueryUids ==
    Range(GetAllUids(ALL_SOP_CLASSES)) \cup Range(GetAllUids(ALL_TRANSFER_SYNTAXES))
    \cup {"invalid.uid"}

\* no call made yet
CatInit == q_uid = "" /\ q_category = "" /\ q_answer = <<>>

CatIdle == CatInit

\* the caller passed `uid` and `category` to operation `op` and got `value`
Answered(op, uid, category, value) ==
    /\ q_answer' = [op |-> op, value |-> value]
    /\ q_uid' = uid
    /\ q_category' = category
    /\ UNCHANGED offCat

\* SopClassRegistry::get, is_supported, get_all_uids, get_by_category
SopGet(uid) ==
    /\ q_answer = <<>>
    /\ Answered("sop.get", uid, "", Get(classes, uid))

SopIsSupported(uid) ==
    /\ q_answer = <<>>
    /\ Answered("sop.is_supported", uid, "", IsSupported(classes, uid))

SopGetAllUids ==
    /\ q_answer = <<>>
    /\ Answered("sop.get_all_uids", "", "", GetAllUids(ALL_SOP_CLASSES))

SopGetByCategory(category) ==
    /\ q_answer = <<>>
    /\ Answered("sop.get_by_category", "", category,
                GetByCategory(ALL_SOP_CLASSES, category))

\* TransferSyntaxRegistry::get, is_supported, get_all_uids, get_by_category
TsGet(uid) ==
    /\ q_answer = <<>>
    /\ Answered("ts.get", uid, "", Get(syntaxes, uid))

TsIsSupported(uid) ==
    /\ q_answer = <<>>
    /\ Answered("ts.is_supported", uid, "", IsSupported(syntaxes, uid))

TsGetAllUids ==
    /\ q_answer = <<>>
    /\ Answered("ts.get_all_uids", "", "", GetAllUids(ALL_TRANSFER_SYNTAXES))

TsGetByCategory(category) ==
    /\ q_answer = <<>>
    /\ Answered("ts.get_by_category", "", category,
                GetByCategory(ALL_TRANSFER_SYNTAXES, category))

\* get_transfer_syntaxes_for_category(&category)
CallForCategory(category) ==
    /\ q_answer = <<>>
    /\ Answered("for_category", "", category,
                GetTransferSyntaxesForCategory(category))

\* get_basic_, get_lossless_, get_compressed_, get_comprehensive_ and
\* get_extended_transfer_syntaxes(), as the two tests call them
CallSyntaxSets ==
    /\ q_answer = <<>>
    /\ Answered("sets", "", "", [basic |-> BasicTransferSyntaxes,
                      lossless |-> LosslessTransferSyntaxes,
                      compressed |-> CompressedTransferSyntaxes,
                      comprehensive |-> ComprehensiveTransferSyntaxes,
                      default |-> DefaultTransferSyntaxes,
                      extended |-> ExtendedTransferSyntaxes])

\* ------------------------------------------------------- specifications
ScuIdle == scu_n = 0

\* ------------------------- connection handlers on the blocking-task pool
PoolPeers == 1..MaxPeers

\* worker threads a connection occupies: one for handle_connection_blocking
\* from the moment it runs, a second one while its receive loop runs
WorkersOf(state) ==
    CASE state \in {"waiting", "holding", "joining"} -> 1
      [] state = "loop" -> 2
      [] OTHER -> 0

RECURSIVE BusyFrom(_, _)
BusyFrom(task, c) ==
    IF c > MaxPeers THEN 0 ELSE WorkersOf(task[c]) + BusyFrom(task, c + 1)

\* the worker threads of the pool that are running a closure
Busy == BusyFrom(b_task, 1)

PoolInit ==
    /\ b_task = [c \in PoolPeers |-> "none"]
    /\ b_permits = max_connections

PoolIdle ==
    /\ b_task = [c \in PoolPeers |-> "done"]
    /\ b_permits = max_connections

\* start: listener.accept() returns and spawn_blocking queues the handler
PoolAccept(c) ==
    /\ b_task[c] = "none"
    /\ b_task' = [b_task EXCEPT ![c] = "queued"]
    /\ UNCHANGED b_permits
    /\ UNCHANGED offPool

\* a free worker takes the handler: block_on, up to acquire().await
PoolRunHandler(c) ==
    /\ b_task[c] = "queued"
    /\ Busy < max_blocking_threads
    /\ b_task' = [b_task EXCEPT ![c] = "waiting"]
    /\ UNCHANGED b_permits
    /\ UNCHANGED offPool

\* let _permit = receiver.connection_semaphore.acquire().await?
PoolAcquire(c) ==
    /\ b_task[c] = "waiting"
    /\ b_permits > 0
    /\ b_permits' = b_permits - 1
    /\ b_task' = [b_task EXCEPT ![c] = "holding"]
    /\ UNCHANGED offPool

\* into_std()? or establish(..)? fails: the handler returns, _permit drops
PoolEstablishFails(c) ==
    /\ b_task[c] = "holding"
    /\ b_permits' = b_permits + 1
    /\ b_task' = [b_task EXCEPT ![c] = "done"]
    /\ UNCHANGED offPool

\* establish succeeds: spawn_blocking queues the receive loop and the
\* handler waits in .await for it, still on its worker
PoolSpawnLoop(c) ==
    /\ b_task[c] = "holding"
    /\ b_task' = [b_task EXCEPT ![c] = "joining"]
    /\ UNCHANGED b_permits
    /\ UNCHANGED offPool

\* a free worker takes the receive loop
PoolRunLoop(c) ==
    /\ b_task[c] = "joining"
    /\ Busy < max_blocking_threads
    /\ b_task' = [b_task EXCEPT ![c] = "loop"]
    /\ UNCHANGED b_permits
    /\ UNCHANGED offPool

\* the loop breaks, .await?? returns, the handler returns, _permit drops
PoolLoopEnds(c) ==
    /\ b_task[c] = "loop"
    /\ b_permits' = b_permits + 1
    /\ b_task' = [b_task EXCEPT ![c] = "done"]
    /\ UNCHANGED offPool

\* --------------------- the Data PDVs of one file against the peer's limit
\* the maximum PDU length the acceptor may announce in A-ASSOCIATE-AC
PeerMaxPdus == {4096, 8192, 16011, 16012, 16384, 32768, 65536}

\* dataset_buffer.len()
DatasetLens == {0, 1, 4084, 4085, 16000, 16001, 32000, 32001, 48001}

\* a P-DATA-TF with one PDV: PDU header (type, reserved, length) and PDV
\* item header (length, context id, control) before the payload
PduOctets(payload) == 6 + 6 + payload

PduInit ==
    /\ x_peer_max \in PeerMaxPdus
    /\ x_len \in DatasetLens
    /\ x_offset = 0
    /\ x_emitted = <<>>
    /\ x_pc = "loop"

PduIdle ==
    /\ x_peer_max = 0 /\ x_len = 0 /\ x_offset = 0 /\ x_emitted = <<>>
    /\ x_pc = "idle"

\* one iteration of the while loop whose association.send() writes the PDU
PduSendChunk ==
    /\ x_pc = "loop"
    /\ MoreChunks(x_len, x_offset)
    /\ x_emitted' = Append(x_emitted,
                           ChunkSize(x_len, x_offset, max_pdu_data_size))
    /\ x_offset' = NextOffset(x_len, x_offset, max_pdu_data_size)
    /\ UNCHANGED <<x_peer_max, x_len, x_pc>>
    /\ UNCHANGED offPdu

\* .. or whose association.send()? refuses a PDU longer than the acceptor
\* takes: the file fails
PduSendRefused ==
    /\ x_pc = "loop"
    /\ MoreChunks(x_len, x_offset)
    /\ PduOctets(ChunkSize(x_len, x_offset, max_pdu_data_size)) > x_peer_max
    /\ x_pc' = "failed"
    /\ UNCHANGED <<x_peer_max, x_len, x_offset, x_emitted>>
    /\ UNCHANGED offPdu

\* the loop is over: Ok(dataset_buffer.len())
PduFileSent ==
    /\ x_pc = "loop"
    /\ ~MoreChunks(x_len, x_offset)
    /\ x_pc' = "sent"
    /\ UNCHANGED <<x_peer_max, x_len, x_offset, x_emitted>>
    /\ UNCHANGED offPdu

\* ------------------- one presentation context through the old acceptor
\* the byte 0x00 that pads a UID of odd length to even length, as
\* String::from_utf8_lossy hands it on
NUL == "\\0"

WirePaddings == {"", NUL, " "}

\* the abstract-syntax sub-item: CT Image Storage, bare or padded, or a UID
\* the registry does not hold
WireAbstractSyntaxes ==
    {"1.2.840.10008.5.1.4.1.1.2" \o p : p \in WirePaddings} \cup {"1.2.3.4"}

\* the transfer-syntax sub-items: Implicit and Explicit VR Little Endian,
\* JPEG Baseline, and Implicit VR Little Endian padded
WireTransferSyntaxes ==
    {"1.2.840.10008.1.2", "1.2.840.10008.1.2.1", "1.2.840.10008.1.2.4.50",
     "1.2.840.10008.1.2" \o NUL}

WireItems ==
    [abstract_syntax : WireAbstractSyntaxes,
     transfer_syntaxes :
        UNION {[1..n -> WireTransferSyntaxes] : n \in 0..MaxRqSyntaxes}]

NegInit ==
    /\ n_item = <<>> /\ n_pc = <<>> /\ n_reply = <<>> /\ n_stage = "read"

NegIdle ==
    /\ n_item = <<>> /\ n_pc = <<>> /\ n_reply = <<>> /\ n_stage = "idle"

\* parse_association_request meets a 0x20 item: parse_presentation_context
NegParse(item) ==
    /\ n_stage = "read"
    /\ n_item' = item
    /\ n_pc' = ParsePresentationContexts(<<item>>)
    /\ n_stage' = "parsed"
    /\ UNCHANGED n_reply
    /\ UNCHANGED offNeg

\* pc.result = self.evaluate_presentation_context(&pc)
NegEvaluate ==
    /\ n_stage = "parsed"
    /\ n_pc' = Evaluated(n_pc)
    /\ n_stage' = "evaluated"
    /\ UNCHANGED <<n_item, n_reply>>
    /\ UNCHANGED offNeg

\* send_association_accept(socket, &accepted_contexts)
NegAccept ==
    /\ n_stage = "evaluated"
    /\ n_reply' = AssociateAc(n_pc)
    /\ n_stage' = "replied"
    /\ UNCHANGED <<n_item, n_pc>>
    /\ UNCHANGED offNeg

\* ----------------------------- the PDUs the old acceptor writes, in bytes
\* u16::to_be_bytes, u32::to_be_bytes
U16Be(n) == <<(n \div 256) % 256, n % 256>>

U32Be(n) ==
    <<(n \div 16777216) % 256, (n \div 65536) % 256, (n \div 256) % 256,
      n % 256>>

\* u32::from_be_bytes on the length field of a PDU header
U32FromBe(b) == ((b[1] * 256 + b[2]) * 256 + b[3]) * 256 + b[4]

\* the byte of a character of an AE title
AeByte(c) == CASE c = "A" -> 65 [] c = "B" -> 66 [] OTHER -> 32

\* [0x20u8; 16] with the first min(len, 16) bytes copied from the title
AeBytes(title) ==
    [i \in 1..16 |->
        IF i <= Min(Len(title), 16) THEN AeByte(title[i]) ELSE 32]

\* ts.as_bytes(): as many bytes as the UID has characters (ASCII); any
\* one byte value stands for them
AsBytes(uid) == [i \in 1..Len(uid) |-> 46]

\* for pc in contexts { if pc.result == 0 { .. } }: the 0x21 items, from
\* the i-th context on
RECURSIVE AcceptItems(_, _)
AcceptItems(contexts, i) ==
    IF i > Len(contexts) THEN <<>>
    ELSE LET pc == contexts[i]
             pc_data ==
                <<pc.id, 0, pc.result, 0>>
                \o (IF pc.transfer_syntaxes # <<>>
                    THEN <<64, 0>>
                         \o U16Be(Len(pc.transfer_syntaxes[1]))
                         \o AsBytes(pc.transfer_syntaxes[1])
                    ELSE <<>>)
         IN  (IF pc.result = 0
              THEN <<33, 0>> \o U16Be(Len(pc_data)) \o pc_data
              ELSE <<>>)
             \o AcceptItems(contexts, i + 1)

\* send_association_reject: the bytes of `pdu`
RejectPdu(result, source, reason) ==
    <<3, 0, 0, 4, 0, result, source, reason>>

\* send_association_accept: the bytes of `pdu`
AcceptPdu(calling_ae, contexts) ==
    LET pdu_data ==
            <<0, 1>> \o <<0, 0>> \o AeBytes(ae_title) \o AeBytes(calling_ae)
            \o [i \in 1..32 |-> 0] \o AcceptItems(contexts, 1)
    IN  <<2, 0>> \o U32Be(Len(pdu_data)) \o pdu_data

\* send_release_response: the bytes of `pdu`
ReleasePdu == <<6, 0, 0, 4, 0, 0, 0, 0>>

\* the calling AE titles and the evaluated contexts an accept is written for
CallingAes == {<<>>, <<"A">>, <<"B">>, <<"A", "B">>, <<"B", "A">>}

AcceptedContextLists(max_contexts, max_syntaxes) ==
    LET proposed == UNION {[1..n -> {"1.2.840.10008.1.2.1",
                                      "1.2.840.10008.1.2.4.50"}]
                           : n \in 0..max_syntaxes}
        some == [result : {0, 3, 4}, transfer_syntaxes : proposed]
    IN  {[i \in DOMAIN list |->
            [id |-> WireContextId(i), result |-> list[i].result,
             transfer_syntaxes |-> list[i].transfer_syntaxes]]
         : list \in UNION {[1..n -> some] : n \in 0..max_contexts}}

CodecInit == w_op = "none" /\ w_pdu = <<>>

CodecIdle == w_op = "idle" /\ w_pdu = <<>>

\* send_association_reject(socket, result, source, reason)
SendAssociationReject(result, source, reason) ==
    /\ w_op = "none"
    /\ w_pdu' = RejectPdu(result, source, reason)
    /\ w_op' = "reject"
    /\ UNCHANGED offCodec

\* send_association_accept(socket, &calling_ae, &accepted_contexts)
SendAssociationAccept(calling_ae, contexts) ==
    /\ w_op = "none"
    /\ w_pdu' = AcceptPdu(calling_ae, contexts)
    /\ w_op' = "accept"
    /\ UNCHANGED offCodec

\* send_release_response(socket)
SendReleaseResponse ==
    /\ w_op = "none"
    /\ w_pdu' = ReleasePdu
    /\ w_op' = "release"
    /\ UNCHANGED offCodec

\* --------------------- the payload of an A-ASSOCIATE-RQ, parsed by hand
\* u16::from_be_bytes([hi, lo])
U16FromBe(hi, lo) == hi * 256 + lo

\* a sub-item as a requestor may send it: type, reserved, a length field
\* that need not be the length of the value, the value
SubItemBytes(item_type, declared, value_len) ==
    <<item_type, 0>> \o U16Be(declared) \o [i \in 1..value_len |-> 49]

SubItemChoices(max_value_len) ==
    {SubItemBytes(item_type, declared, value_len) :
        item_type \in {48, 64}, declared \in 0..(max_value_len + 1),
        value_len \in 0..max_value_len}

\* the first n elements of a sequence, all of it if it has fewer
Prefix(s, n) == SubSeq(s, 1, Min(n, Len(s)))

RECURSIVE Concat(_)
Concat(seqs) == IF seqs = <<>> THEN <<>> ELSE Head(seqs) \o Concat(Tail(seqs))

\* the data of a presentation-context item: id, three reserved bytes, the
\* sub-items; or any leading part of that
PcDataChoices(max_sub_items, max_value_len) ==
    {Prefix(full, n) :
        full \in {<<1, 0, 0, 0>> \o Concat(subs) :
                    subs \in UNION {[1..k -> SubItemChoices(max_value_len)]
                                    : k \in 0..max_sub_items}},
        n \in 0..(4 + max_sub_items * (4 + max_value_len))}

\* the fixed fields (version, reserved, two AE titles, reserved) and one
\* 0x20 item whose length field says the length of its data, or one more
RqPayloadsWhole(max_sub_items, max_value_len) ==
    {[i \in 1..RqFixedLen |-> 32]
        \o <<32, 0>> \o U16Be(Len(pc_data) + over) \o pc_data :
     pc_data \in PcDataChoices(max_sub_items, max_value_len),
     over \in {0, 1}}

\* the payloads read: those, the last byte or the item's data cut off, the
\* fixed fields alone, one byte less than the fixed fields, nothing
RqPayloads(max_sub_items, max_value_len) ==
    LET wholes == RqPayloadsWhole(max_sub_items, max_value_len)
    IN  {Prefix(whole, n) :
            whole \in wholes,
            n \in {0, RqFixedLen - 1, RqFixedLen, RqFixedLen + 2,
                   RqFixedLen + 4, RqFixedLen + 400}}
        \cup {SubSeq(whole, 1, Len(whole) - 1) : whole \in wholes}

\* parse_presentation_context, the while loop from `offset` on: "Ok", or
\* "panic" where an index or a slice is out of the range of `data`
RECURSIVE SubItemsFrom(_, _)
SubItemsFrom(data, off) ==
    IF ~(off < Len(data)) THEN "Ok"
    ELSE IF off + 3 >= Len(data) THEN "panic"
    ELSE LET item_type == data[off + 1]
             item_length == U16FromBe(data[off + 3], data[off + 4])
         IN  IF item_type \in {48, 64} /\ off + 4 + item_length > Len(data)
             THEN "panic"
             ELSE SubItemsFrom(data, off + 4 + item_length)

\* parse_presentation_context(data): let id = data[0]; offset = 4; ..
ParsePresentationContext(data) ==
    IF data = <<>> THEN "panic" ELSE SubItemsFrom(data, 4)

\* parse_association_request, the while loop from `offset` on
RECURSIVE VariableItemsFrom(_, _)
VariableItemsFrom(data, off) ==
    IF ~(off < Len(data)) THEN "Ok"
    ELSE IF off + 4 > Len(data) THEN "Ok"
    ELSE LET item_type == data[off + 1]
             item_length == U16FromBe(data[off + 3], data[off + 4])
         IN  IF off + 4 + item_length > Len(data) THEN "Ok"
             ELSE IF item_type = 32
                     /\ ParsePresentationContext(
                            SubSeq(data, off + 5, off + 4 + item_length))
                          = "panic"
             THEN "panic"
             ELSE VariableItemsFrom(data, off + 4 + item_length)

\* parse_association_request(data)
ParseAssociationRequest(data) ==
    IF Len(data) < RqFixedLen THEN "Err"
    ELSE VariableItemsFrom(data, RqFixedLen)

ParseInit == p_data = <<>> /\ p_outcome = "" /\ p_stage = "await"

ParseIdle == p_data = <<>> /\ p_outcome = "" /\ p_stage = "idle"

\* socket.read_exact(&mut pdu_data)
ReadRequestPayload(payload) ==
    /\ p_stage = "await"
    /\ p_data' = payload
    /\ p_stage' = "read"
    /\ UNCHANGED p_outcome
    /\ UNCHANGED offParse

\* match self.parse_association_request(&pdu_data)
MatchParseAssociationRequest ==
    /\ p_stage = "read"
    /\ p_outcome' = ParseAssociationRequest(p_data)
    /\ p_stage' = "parsed"
    /\ UNCHANGED p_data
    /\ UNCHANGED offParse

\* -------------------------- the Message IDs of the files of one association
\* idx as u16
AsU16(n) == n % 65536

\* where the loop is looked at from: its start, or after 65500 files
\* (whose last had message_id 65500)
LoopStarts == {0, 65500}

MsgIdInit ==
    /\ k_idx \in LoopStarts
    /\ k_message_id = AsU16(k_idx)
    /\ k_pc = "loop"

MsgIdIdle == k_idx = 0 /\ k_message_id = 0 /\ k_pc = "idle"

\* for (idx, file) in files.iter().enumerate() {
\*     send_single_file_simple(.., idx as u16 + 1, ..) }
\* with idx as u16 + 1 in range
NextFileMessageId ==
    /\ k_pc = "loop"
    /\ k_idx < MaxAssocFiles
    /\ AsU16(k_idx) + 1 < 65536
    /\ k_message_id' = AsU16(k_idx) + 1
    /\ k_idx' = k_idx + 1
    /\ UNCHANGED k_pc
    /\ UNCHANGED offMsgId

\* idx as u16 + 1 overflows u16: a build with overflow checks (debug)
\* panics ..
MessageIdOverflowPanics ==
    /\ k_pc = "loop"
    /\ k_idx < MaxAssocFiles
    /\ AsU16(k_idx) + 1 >= 65536
    /\ k_pc' = "panicked"
    /\ UNCHANGED <<k_idx, k_message_id>>
    /\ UNCHANGED offMsgId

\* .. a build without them (release) wraps
MessageIdOverflowWraps ==
    /\ k_pc = "loop"
    /\ k_idx < MaxAssocFiles
    /\ AsU16(k_idx) + 1 >= 65536
    /\ k_message_id' = (AsU16(k_idx) + 1) % 65536
    /\ k_idx' = k_idx + 1
    /\ UNCHANGED k_pc
    /\ UNCHANGED offMsgId

\* the iterator is exhausted: files.len() files were handed on
FileLoopEnds ==
    /\ k_pc = "loop"
    /\ k_pc' = "done"
    /\ UNCHANGED <<k_idx, k_message_id>>
    /\ UNCHANGED offMsgId

\* the groups added last, at rest
TailIdle == PduIdle /\ NegIdle /\ CodecIdle /\ ParseIdle /\ MsgIdIdle

RestIdle == ScuIdle /\ OrchIdle /\ NamesIdle /\ AccIdle /\ MainIdle /\ CatIdle /\ PoolIdle /\ TailIdle

InitFrag == FragInit /\ RecvIdle /\ AssocIdle /\ RestIdle

SpecFrag == InitFrag /\ [][FragNext]_vars

InitRecv == RecvInit /\ FragIdle /\ AssocIdle /\ RestIdle

SpecRecv == InitRecv /\ [][RecvNext]_vars

Init == SenderInit /\ FragIdle /\ RecvIdle /\ RestIdle

Next ==
    \/ Negotiated
    \/ EstablishFails
    \/ OpenFails
    \/ NoContextFound
    \/ \E len \in 0..MaxDataLen : SendCommand(len)
    \/ SendCommandFails
    \/ SendChunk
    \/ SendChunkFails
    \/ FileSent
    \/ ResponseRead
    \/ ReceiveFails
    \/ SendRelease
    \/ SendReleaseFails
    \/ ReleaseReplyRead
    \/ ReleaseReplyFails
    \/ LinkDown
    \/ \E write_ok \in BOOLEAN : ReceiverPData(write_ok)
    \/ ReceiverRelease
    \/ \E write_ok \in BOOLEAN : ReceiverError(write_ok)

Spec == Init /\ [][Next]_vars

ScpNext ==
    \/ NegotiatedAny
    \/ EstablishFails
    \/ OpenFails
    \/ NoContextFound
    \/ \E len \in 0..MaxDataLen : SendCommand(len)
    \/ SendCommandFails
    \/ SendChunk
    \/ SendChunkFails
    \/ FileSent
    \/ ResponseRead
    \/ OtherPduRead
    \/ ReceiveFails
    \/ SendRelease
    \/ SendReleaseFails
    \/ ReleaseReplyRead
    \/ ReleaseReplyFails
    \/ ScpAbsorb
    \/ \E status \in Statuses : ScpRespond(status)
    \/ ScpRelease
    \/ ScpAbort

SpecScp == Init /\ [][ScpNext]_vars

InitScu ==
    /\ ScuInit /\ FragIdle /\ RecvIdle /\ OrchIdle /\ NamesIdle /\ AccIdle
    /\ MainIdle /\ CatIdle /\ PoolIdle /\ TailIdle

ScuNext ==
    \/ \E pdv \in ScuPdvs(scu_n + 1) : ScuSend(pdv)
    \/ ScuRelease
    \/ ScuAbort
    \/ ScuAbortAwaitsClose
    \/ ScuClose
    \/ \E write_ok \in BOOLEAN : ReceiverPData(write_ok)
    \/ ReceiverRelease
    \/ ReceiverOther
    \/ \E write_ok \in BOOLEAN : ReceiverError(write_ok)

SpecScu == InitScu /\ [][ScuNext]_vars

\* the receive loop of handle_connection_blocking: whatever receive()
\* returns is handled; the peer is under no obligation
ReceiveLoop ==
    \/ \E write_ok \in BOOLEAN : ReceiverPData(write_ok)
    \/ ReceiverRelease
    \/ ReceiverOther
    \/ \E write_ok \in BOOLEAN : ReceiverError(write_ok)

SpecScuLive == SpecScu /\ WF_vars(ReceiveLoop)

InitOrch ==
    /\ OrchInit /\ FragIdle /\ RecvIdle /\ AssocIdle /\ ScuIdle
    /\ NamesIdle /\ AccIdle /\ MainIdle /\ CatIdle /\ PoolIdle /\ TailIdle

OrchNext ==
    \/ SpawnWorkers
    \/ \E w \in ThreadIds : StudyEstablished(w)
    \/ \E w \in ThreadIds : StudyFails(w)
    \/ \E w \in ThreadIds : StudyFileStart(w)
    \/ \E w \in ThreadIds, ok \in BOOLEAN : StudyFileEnd(w, ok)
    \/ \E w \in ThreadIds : StudyDone(w)
    \/ \E w \in ThreadIds : WorkerReturns(w)
    \/ JoinWorker
    \/ SessionDone

\* the session with the clock standing still
SpecFan == InitOrch /\ [][OrchNext]_vars

\* the session, every send returning sooner or later and every task run
SpecFanLive == SpecFan /\ WF_vars(OrchNext)

\* the session with the clock running
TimedNext == OrchNext \/ Tick

SpecOrch == InitOrch /\ [][TimedNext]_vars

\* the Receiver's output directory under max_connections connections
InitNames ==
    /\ NamesInit /\ FragIdle /\ RecvIdle /\ AssocIdle /\ ScuIdle
    /\ OrchIdle /\ AccIdle /\ MainIdle /\ CatIdle /\ PoolIdle /\ TailIdle

NamesNext ==
    \/ \E c \in NameConns : NameAccept(c)
    \/ \E c \in NameConns, pc_id \in ScuContexts,
          value_type \in {"Command", "Data"}, is_last \in BOOLEAN :
            NamePdv(c, pc_id, value_type, is_last)
    \/ \E c \in NameConns : NameError(c)
    \/ \E c \in NameConns : NameRelease(c)
    \/ \E c \in NameConns : NameNext(c)
    \/ NameTick

SpecNames == InitNames /\ [][NamesNext]_vars

\* the acceptor of receiver_old.rs, over the requests it may read
InitAcc ==
    /\ AccInit /\ FragIdle /\ RecvIdle /\ AssocIdle /\ ScuIdle
    /\ OrchIdle /\ NamesIdle /\ MainIdle /\ CatIdle /\ PoolIdle /\ TailIdle

AccNext ==
    \/ AssocNotARequest
    \/ AssocParseError
    \/ AssocCalledAeMismatch
    \/ AssocAccept

SpecAcc == InitAcc /\ [][AccNext]_vars

\* main, from the files on disk to the summary
InitMain ==
    /\ MainInit /\ FragIdle /\ RecvIdle /\ AssocIdle /\ ScuIdle
    /\ OrchIdle /\ NamesIdle /\ AccIdle /\ CatIdle /\ PoolIdle /\ TailIdle

MainNext ==
    \/ ProcessDicomFile
    \/ IndexDone
    \/ GroupStudies
    \/ \E study_uid \in StudyUidValues \cup {"UNKNOWN_STUDY"},
          established \in BOOLEAN, ok \in 0..MaxObjs :
            SendStudy(study_uid, established, ok)
    \/ WriteSummary

SpecMain == InitMain /\ [][MainNext]_vars

\* one call into the catalogs
InitCat ==
    /\ CatInit /\ FragIdle /\ RecvIdle /\ AssocIdle /\ ScuIdle
    /\ OrchIdle /\ NamesIdle /\ AccIdle /\ MainIdle /\ PoolIdle /\ TailIdle

CatNext ==
    \/ \E uid \in QueryUids : SopGet(uid)
    \/ \E uid \in QueryUids : SopIsSupported(uid)
    \/ SopGetAllUids
    \/ \E category \in SopClassCategories : SopGetByCategory(category)
    \/ \E uid \in QueryUids : TsGet(uid)
    \/ \E uid \in QueryUids : TsIsSupported(uid)
    \/ TsGetAllUids
    \/ \E category \in TransferSyntaxCategories : TsGetByCategory(category)
    \/ \E category \in SopClassCategories : CallForCategory(category)
    \/ CallSyntaxSets

SpecCat == InitCat /\ [][CatNext]_vars

\* peers connecting to one Receiver
InitPool ==
    /\ PoolInit /\ FragIdle /\ RecvIdle /\ AssocIdle /\ ScuIdle
    /\ OrchIdle /\ NamesIdle /\ AccIdle /\ MainIdle /\ CatIdle /\ TailIdle

PoolNext ==
    \/ \E c \in PoolPeers : PoolAccept(c)
    \/ \E c \in PoolPeers : PoolRunHandler(c)
    \/ \E c \in PoolPeers : PoolAcquire(c)
    \/ \E c \in PoolPeers : PoolEstablishFails(c)
    \/ \E c \in PoolPeers : PoolSpawnLoop(c)
    \/ \E c \in PoolPeers : PoolRunLoop(c)
    \/ \E c \in PoolPeers : PoolLoopEnds(c)

SpecPool == InitPool /\ [][PoolNext]_vars

\* the runtime runs whatever can run, and every peer plays its part
SpecPoolLive == SpecPool /\ WF_vars(PoolNext)

\* one file sent to an acceptor that announced x_peer_max
InitPdu ==
    /\ PduInit /\ FragIdle /\ RecvIdle /\ AssocIdle /\ ScuIdle /\ OrchIdle
    /\ NamesIdle /\ AccIdle /\ MainIdle /\ CatIdle /\ PoolIdle /\ NegIdle
    /\ CodecIdle /\ ParseIdle /\ MsgIdIdle

PduNext ==
    \/ PduSendChunk
    \/ PduSendRefused
    \/ PduFileSent

SpecPdu == InitPdu /\ [][PduNext]_vars

\* one presentation-context item, parsed, evaluated and answered
InitNeg ==
    /\ NegInit /\ FragIdle /\ RecvIdle /\ AssocIdle /\ ScuIdle /\ OrchIdle
    /\ NamesIdle /\ AccIdle /\ MainIdle /\ CatIdle /\ PoolIdle /\ PduIdle
    /\ CodecIdle /\ ParseIdle /\ MsgIdIdle

NegNext ==
    \/ \E item \in WireItems : NegParse(item)
    \/ NegEvaluate
    \/ NegAccept

SpecNeg == InitNeg /\ [][NegNext]_vars

\* one PDU written by the hand-written acceptor
InitCodec ==
    /\ CodecInit /\ FragIdle /\ RecvIdle /\ AssocIdle /\ ScuIdle /\ OrchIdle
    /\ NamesIdle /\ AccIdle /\ MainIdle /\ CatIdle /\ PoolIdle /\ PduIdle
    /\ NegIdle /\ ParseIdle /\ MsgIdIdle

CodecNext ==
    \/ \E result \in 1..2, source \in 1..3, reason \in 1..7 :
          SendAssociationReject(result, source, reason)
    \/ \E calling_ae \in CallingAes,
          contexts \in AcceptedContextLists(MaxRqContexts, MaxRqSyntaxes) :
          SendAssociationAccept(calling_ae, contexts)
    \/ SendReleaseResponse

SpecCodec == InitCodec /\ [][CodecNext]_vars

\* one A-ASSOCIATE-RQ payload, read and parsed
InitParse ==
    /\ ParseInit /\ FragIdle /\ RecvIdle /\ AssocIdle /\ ScuIdle /\ OrchIdle
    /\ NamesIdle /\ AccIdle /\ MainIdle /\ CatIdle /\ PoolIdle /\ PduIdle
    /\ NegIdle /\ CodecIdle /\ MsgIdIdle

ParseNext ==
    \/ \E payload \in RqPayloads(MaxSubItems, MaxValueLen) :
          ReadRequestPayload(payload)
    \/ MatchParseAssociationRequest

SpecParse == InitParse /\ [][ParseNext]_vars

\* the file loop of one association and the Message IDs it hands out
InitMsgId ==
    /\ MsgIdInit /\ FragIdle /\ RecvIdle /\ AssocIdle /\ ScuIdle /\ OrchIdle
    /\ NamesIdle /\ AccIdle /\ MainIdle /\ CatIdle /\ PoolIdle /\ PduIdle
    /\ NegIdle /\ CodecIdle /\ ParseIdle

MsgIdNext ==
    \/ NextFileMessageId
    \/ MessageIdOverflowPanics
    \/ MessageIdOverflowWraps
    \/ FileLoopEnds

SpecMsgId == InitMsgId /\ [][MsgIdNext]_vars

\* ================================================================ claims
\* C1: at every moment the connections that hold a permit (negotiating, in
\* the receive loop, or about to return) number at most max_connections.
C1_PermitCap == Cardinality(Holders) <= max_connections

\* the cap is reached while a further connection waits for a permit
C1_Witness ==
    /\ Cardinality(Holders) = max_connections
    /\ waiters # <<>>
    /\ \E c \in Conns : conn[c] = "loop"

\* C2: with more peers than permits, a handler gets past acquire() only
\* while fewer than max_connections hold a permit or as one of them returns
\* it; and whenever a holder ends (release, EOF or error, abort followed by
\* the peer's close, failed negotiation) while handlers wait, the one that
\* waited longest begins negotiation in that very step.
C2_Step ==
    /\ \A c \in Conns :
         (conn[c] \in {"acquire", "waiting"} /\ conn'[c] = "establish")
         => \/ Cardinality(Holders) < max_connections
            \/ \E d \in Holders : conn'[d] = "done"
    /\ \A d \in Conns :
         (HoldsPermit(d) /\ conn'[d] = "done" /\ waiters # <<>>)
         => conn'[Head(waiters)] = "establish"
    /\ Cardinality({c \in Conns : conn'[c] \in {"loop", "closing"}})
         <= max_connections

C3_OneResponsePerFile ==
    /\ s_pc = "await" => cur.final_sent
    /\ \A k \in DOMAIN outcomes :
         outcomes[k].ok /\ outcomes[k].rec.final_sent
         => outcomes[k].rec.awaited = 1
    /\ cur.sent > 0 =>
         \A k \in DOMAIN outcomes :
           outcomes[k].ok /\ outcomes[k].rec.final_sent
           => outcomes[k].rec.final_rsp

\* C4: every response the Receiver emits answers a P-DATA-TF that carried a
\* final Data PDV, and no message is answered twice.
C4_ResponseOnlyAfterFinal ==
    /\ \A i \in DOMAIN responses :
         responses[i].value_type = "Data" /\ responses[i].is_last
    /\ \A i, j \in DOMAIN responses :
         responses[i].file = responses[j].file => i = j

\* C5: every file the Receiver writes on a final Data PDV holds exactly the
\* bytes of the dataset the Sender fragmented for that message.
C5_Reassembly ==
    \A i \in DOMAIN saved :
        saved[i].complete
        => saved[i].data = Bytes(saved[i].of.file, saved[i].of.len)

\* a dataset that took several PDVs was written, after an earlier message
\* on the same context
C5_Witness ==
    \E i, j \in DOMAIN saved :
        /\ i < j
        /\ saved[i].pc_id = saved[j].pc_id
        /\ saved[i].complete /\ saved[j].complete
        /\ Len(saved[j].data) > data_cap

\* C6: every PDU sent for a file goes out on the context whose accepted
\* abstract syntax is the file's SOP class, and a file fails for want of a
\* context only when no accepted context carries its SOP class, nothing
\* having been sent for it.
AcceptedFor(sop_class_uid) ==
    \E i \in DOMAIN pcs :
        pcs[i].accepted
        /\ AbstractSyntaxOf(sop_classes_vec, pcs[i].id) = sop_class_uid

C6_ContextBySopClass ==
    /\ cur.sent > 0
       => AbstractSyntaxOf(sop_classes_vec, cur.pc_id) = files[idx]
    /\ \A k \in DOMAIN outcomes :
         /\ outcomes[k].rec.sent > 0
            => AbstractSyntaxOf(sop_classes_vec, outcomes[k].rec.pc_id)
                 = files[outcomes[k].file]
         /\ outcomes[k].why = "no_context"
            => ~AcceptedFor(files[outcomes[k].file]) /\ outcomes[k].rec.sent = 0

\* C7: a file counts as successful only if a response with Status 0x0000
\* or 0xB0xx was read for it, and none with another status.
StatusOk(status) == status = 0 \/ status \div 256 = 176

C7_SuccessNeedsStatus ==
    \A k \in DOMAIN outcomes :
        outcomes[k].ok
        => /\ \E st \in outcomes[k].rec.statuses : StatusOk(st)
           /\ \A st \in outcomes[k].rec.statuses : StatusOk(st)

\* C8: once the Sender has read an A-ABORT with fragments of the file still
\* to send, it sends no further PDU and the file counts as failed.
C8_NoSendAfterAbort ==
    (aborted.read /\ aborted.mid_file)
    => /\ aborted.sent = 0
       /\ \A k \in DOMAIN outcomes :
            outcomes[k].file = aborted.file => ~outcomes[k].ok

\* C9: the PDU the Sender reads after its A-RELEASE-RQ is A-RELEASE-RP, and
\* with the release done nothing else is left on the wire.
C9_ReleaseHandshake ==
    /\ release \in {"none", "sent", "send_failed", "read_failed", "ReleaseRP"}
    /\ (s_pc = "done" /\ release = "ReleaseRP")
       => to_scu = <<>> /\ to_scp = <<>>

\* C10: a dataset of L >= 1 bytes leaves the fragmentation loop as
\* ceil(L / cap) Data PDVs: all but the last carry cap bytes and is_last =
\* false, the last carries the rest and is_last = true.
CeilDiv(a, b) == (a + b - 1) \div b

C10_Fragments ==
    (f_len >= 1 /\ ~MoreChunks(f_len, f_offset))
    => LET n == Len(f_pdvs) IN
       /\ n = CeilDiv(f_len, f_cap)
       /\ \A i \in 1..(n - 1) :
            f_pdvs[i].size = f_cap /\ ~f_pdvs[i].is_last
       /\ f_pdvs[n].size = f_len - (n - 1) * f_cap
       /\ f_pdvs[n].is_last

\* the 40000-byte dataset under the Sender's cap of 16000: three PDVs
C10_Witness ==
    /\ f_len = ScenarioLen /\ f_cap = max_pdu_data_size
    /\ ~MoreChunks(f_len, f_offset)
    /\ Len(f_pdvs) = 3
    /\ f_pdvs[3].size = ScenarioLen - 2 * max_pdu_data_size

\* C11: the Receiver buffers no Data PDV, and persists no dataset, on a
\* context on which no Command PDV has arrived for the current message.
C11_NoDataBeforeCommand ==
    /\ \A pc_id \in DOMAIN transfers :
         transfers[pc_id].dataset_chunks # <<>>
         => transfers[pc_id].command_received
    /\ \A i \in DOMAIN saved : saved[i].command_received

\* C12: in every TransferStats the Sender returns (send_files, a worker,
\* main's merged one) successful_transfers + failed_transfers = total_files.
C12_StatsAddUp ==
    \A p \in produced :
        p.stats.successful_transfers + p.stats.failed_transfers
            = p.stats.total_files

\* C13: in every TransferStats the Sender returns, the transfer times of the
\* successful files add up to at most total_time.
RECURSIVE SumFrom(_, _)
SumFrom(times, i) ==
    IF i > Len(times) THEN 0 ELSE times[i] + SumFrom(times, i + 1)

C13_TimesWithinTotal ==
    \A p \in produced : SumFrom(p.stats.transfer_times, 1) <= p.stats.total_time

\* C14: the spawned workers number at most args.threads; every indexed file
\* lies in exactly one study of exactly one worker, and that study is its
\* own; no file is handed to send_files or taken up by a file loop more
\* than once, and by the end of the session every file was handed to
\* send_files exactly once.
Places(i) ==
    {<<w, k, j>> \in (DOMAIN workers) \X (1..MaxStudies) \X (1..MaxIndexed) :
        /\ k <= Len(workers[w].studies)
        /\ j <= Len(workers[w].studies[k].files)
        /\ workers[w].studies[k].files[j] = i}

C15_RoundRobin ==
    o_pc \in {"joining", "done"} =>
        /\ \A k \in DOMAIN study_chunks :
             LET w == (k - 1) % threads IN
             /\ w \in DOMAIN workers
             /\ \E j \in DOMAIN workers[w].studies :
                  workers[w].studies[j] = study_chunks[k]
        /\ \A v, w \in DOMAIN workers :
             Len(workers[v].studies) - Len(workers[w].studies) <= 1
        /\ Cardinality(DOMAIN workers) = Min(Len(study_chunks), threads)

\* C16: once the Sender has requested its association, it has proposed
\* exactly one presentation context for each SOP class among its files, and
\* each with the transfer syntaxes the policy gives for the class's category.
C16_ContextPerSopClass ==
    s_pc \notin {"idle", "start"} =>
        LET proposed == ProposedContexts(sop_classes_vec) IN
        /\ \A sop_uid \in UniqueSopClasses(files) :
             Cardinality({i \in DOMAIN proposed :
                             proposed[i].abstract_syntax = sop_uid}) = 1
        /\ \A i \in DOMAIN proposed :
             proposed[i].transfer_syntaxes =
                 GetTransferSyntaxesForCategory(
                     SopClassCategory(proposed[i].abstract_syntax))

\* C17: every response the Receiver emits echoes the Message ID and the
\* Affected SOP Instance UID of the C-STORE-RQ of the message it answers.
C17_ResponseEchoesRequest ==
    \A i \in DOMAIN responses :
        /\ responses[i].rsp.message_id_being_responded_to = responses[i].file
        /\ responses[i].rsp.affected_sop_instance_uid
             = SopInstanceUid(responses[i].file)

\* C18: the response to a P-DATA-TF the Receiver could not handle (its
\* dataset was not written, or its command is not a C-STORE-RQ) carries a
\* status other than 0x0000.
C18_FailureStatus ==
    \A i \in DOMAIN responses :
        responses[i].unhandled => responses[i].rsp.status # 0

\* C19: when the Receiver's loop ends on a failed receive (EOF, framing or
\* IO error) and the disk takes the writes, every presentation context that
\* absorbed Data PDVs without a final one has a file holding exactly those
\* chunks, end to end in arrival order, by the time the connection is closed.
C19_PendingFlushed ==
    closed_by = "error" =>
        \A pc_id \in DOMAIN absorbed :
            \E i \in DOMAIN saved :
                /\ saved[i].pc_id = pc_id
                /\ ~saved[i].complete
                /\ saved[i].data = absorbed[pc_id]

\* a receive failed while one context held two chunks and another held one
C19_Witness ==
    /\ closed_by = "error"
    /\ r_pc = "closed"
    /\ \E pc_id \in DOMAIN absorbed : Len(absorbed[pc_id]) >= 2
    /\ Cardinality(DOMAIN absorbed) >= 2

\* C20: no file name is written twice by the Receiver, whichever the
\* connections and the messages the datasets came with.
C20_UniqueNames ==
    \A i, j \in DOMAIN written_names :
        i # j => written_names[i] # written_names[j]

\* C21: a Receiver handler whose peer keeps the connection open and sends
\* nothing does not wait forever: its receive fails after the timeout and
\* the association ends.
C21_ReadTimesOut == <>(r_pc = "closed")

\* C22: an A-ASSOCIATE-AC holds exactly one item per presentation context
\* of the request, paired by id, and an item with result 0 names a transfer
\* syntax that the request's item proposed.
C22_OneItemPerContext ==
    \A k \in DOMAIN a_reply :
        a_reply[k].type = "A-ASSOCIATE-AC" =>
            LET items == a_reply[k].items
                requested == ParsePresentationContexts(a_rq.items)
            IN  /\ Len(items) = Len(requested)
                /\ \A i \in DOMAIN requested :
                      \E j \in DOMAIN items :
                          /\ items[j].id = requested[i].id
                          /\ \A h \in DOMAIN items :
                                items[h].id = requested[i].id => h = j
                          /\ items[j].result = 0 =>
                                \E t \in DOMAIN requested[i].transfer_syntaxes :
                                    items[j].transfer_syntax
                                      = <<requested[i].transfer_syntaxes[t]>>

\* C23: a request whose called AE title, its trailing spaces trimmed, is
\* not the acceptor's AE title is answered by A-ASSOCIATE-RJ with result 1,
\* source 1, reason 7, and no association is established.
C23_CalledAeRejected ==
    (/\ a_pc = "done"
     /\ a_rq.pdu_type = 1 /\ ~a_rq.short
     /\ TrimEnd(a_rq.called_ae) # ae_title)
    => /\ a_reply = <<AssociateRj(1, 1, 7)>>
       /\ a_association = <<>>

\* C24: a session whose index holds a file with an UNKNOWN_* placeholder
\* goes on through grouping and transfer to the summary: main does not
\* end before, and at the summary every indexed file is counted as
\* successful or failed.
C24_PlaceholderStillAttempted ==
    (\E i \in DOMAIN indexed : HasPlaceholder(indexed[i])) =>
        /\ m_pc # "panicked"
        /\ m_pc = "summary" =>
              m_stats.successful_transfers + m_stats.failed_transfers
                = Len(indexed)

C26_PolicyTable ==
    IF q_answer = <<>> THEN TRUE
    ELSE q_answer.op = "for_category" =>
        LET value == q_answer.value
            video == SelectSeq(ALL_TRANSFER_SYNTAXES,
                               LAMBDA ts : ts.category = "Video")
        IN  /\ q_category \in {"ComputedTomography", "MagneticResonance",
                               "DigitalRadiography", "DigitalMammography"}
                  => value = CompressedTransferSyntaxes
            /\ q_category = "Enhanced"
                  => /\ Range(value) = DOMAIN syntaxes
                     /\ Len(value) = Cardinality(DOMAIN syntaxes)
            /\ q_category \in {"Waveform", "RawData"}
                  => value = LosslessTransferSyntaxes
            /\ q_category \in {"Endoscopy", "Microscopy"}
                  => value = CompressedTransferSyntaxes
                               \o [i \in DOMAIN video |-> video[i].uid]
            /\ q_category = "Legacy" => value = BasicTransferSyntaxes
            /\ q_category \in {"ComputedRadiography", "Ultrasound",
                               "NuclearMedicine", "PetCt",
                               "OpticalCoherenceTomography",
                               "StructuredReporting", "Presentation",
                               "SecondaryCapture", "KeyObjectSelection",
                               "MultiFrame", "Radiotherapy", "Ophthalmology",
                               "Dermatology", "Dental", "Other"}
                  => value = LosslessTransferSyntaxes
            /\ Cardinality(SopClassCategories) = 25

\* the policy was asked about Endoscopy and gave compressed, then video
C26_Witness ==
    /\ q_answer # <<>>
    /\ q_category = "Endoscopy"
    /\ q_answer.op = "for_category"
    /\ Len(q_answer.value) > Len(CompressedTransferSyntaxes)

\* C27: the basic list is not empty and each of its syntaxes is in the
\* lossless, the compressed and the comprehensive list; the lists grow
\* strictly in that order; the deprecated extended list is the
\* comprehensive one.
C27_SetsNested ==
    IF q_answer = <<>> THEN TRUE
    ELSE q_answer.op = "sets" =>
        LET sets == q_answer.value
        IN  /\ sets.basic # <<>>
            /\ Range(sets.basic) \subseteq Range(sets.lossless)
            /\ Range(sets.basic) \subseteq Range(sets.compressed)
            /\ Range(sets.basic) \subseteq Range(sets.comprehensive)
            /\ Len(sets.basic) < Len(sets.lossless)
            /\ Len(sets.lossless) < Len(sets.compressed)
            /\ Len(sets.compressed) < Len(sets.comprehensive)
            /\ sets.extended = sets.comprehensive

\* the lists were fetched
C27_Witness ==
    /\ q_answer # <<>>
    /\ q_answer.op = "sets"
    /\ Len(q_answer.value.comprehensive) > Len(q_answer.value.compressed)

\* what C28 asks of the answers of one registry, `map` built from `table`
RegistryAnswerOk(name, map, table) ==
    LET value == q_answer.value
        all == Range(GetAllUids(table))
    IN  /\ q_answer.op = name \o ".get" =>
              /\ (value # <<>>) <=> IsSupported(map, q_uid)
              /\ (value # <<>>) <=> (q_uid \in all)
              /\ value # <<>> => value[1].uid = q_uid
        /\ q_answer.op = name \o ".is_supported" =>
              /\ value <=> (Get(map, q_uid) # <<>>)
              /\ value <=> (q_uid \in all)
        /\ q_answer.op = name \o ".get_all_uids" =>
              /\ Range(value) = DOMAIN map
              /\ Len(value) = Cardinality(DOMAIN map)
        /\ q_answer.op = name \o ".get_by_category" =>
              /\ Range(value)
                   = {map[u] : u \in {k \in DOMAIN map :
                                        map[k].category = q_category}}
              /\ Len(value) = Cardinality(Range(value))

\* C28: in both registries is_supported(u) holds exactly when get(u)
\* returns a record, exactly when u is among get_all_uids(); the record has
\* uid u; get_all_uids() lists every registered uid once; and
\* get_by_category(c) lists, once each, the registered records of category c.
C28_RegistryConsistent ==
    IF q_answer = <<>> THEN TRUE
    ELSE /\ RegistryAnswerOk("sop", classes, ALL_SOP_CLASSES)
         /\ RegistryAnswerOk("ts", syntaxes, ALL_TRANSFER_SYNTAXES)

\* CT Image Storage was looked up and found
C28_Witness ==
    /\ q_answer # <<>>
    /\ q_answer.op = "sop.get"
    /\ q_uid = "1.2.840.10008.5.1.4.1.1.2"
    /\ q_answer.value # <<>>

\* C29: every connection that holds a permit gets to run its receive loop
\* once the loop is spawned, and returns its permit, however many peers are
\* connected at once.
C29_PermitHolderProceeds ==
    \A c \in PoolPeers :
        /\ (b_task[c] = "joining") ~> (b_task[c] = "loop")
        /\ (b_task[c] \in {"holding", "joining", "loop"})
              ~> (b_task[c] = "done")

\* C30: the Sender writes P-DATA only on an established association and
\* before release(); release() is called once, after every file has been
\* attempted, whether the files went through or failed, and writes
\* A-RELEASE-RQ unless the connection is already gone; nothing is written
\* after it. When establishing fails no P-DATA and no release is written.
C30_PDataThenOneRelease ==
    /\ [](/\ (cur.sent > 0 \/ \E i \in DOMAIN outcomes : outcomes[i].rec.sent > 0)
              => pcs # <<>>
          /\ s_pc = "failed"
              => /\ cur.sent = 0 /\ outcomes = <<>>
                 /\ release = "none" /\ to_scp = <<>>
          /\ release # "none"
              => /\ pcs # <<>>
                 /\ cur = NewCur
                 /\ Len(outcomes) = Len(files)
          /\ s_pc = "done" => release # "none"
          /\ release = "send_failed" => ~link_up \/ ~scp_open)
    /\ [][release # "none"
            => /\ Len(to_scp') <= Len(to_scp)
               /\ cur' = cur /\ outcomes' = outcomes]_vars

\* A-RELEASE-RQ went out after one file had failed and another had sent
\* its P-DATA
C30_Witness ==
    /\ release = "sent"
    /\ \E i \in DOMAIN outcomes : ~outcomes[i].ok
    /\ \E i \in DOMAIN outcomes : outcomes[i].ok /\ outcomes[i].rec.sent > 0

\* C31: the step in which the Receiver's loop reads an A-ABORT ends the
\* loop (the handler returns and drops its permit) and writes nothing to the
\* peer; no later PDU of that peer is read.
C31_AbortEndsAssociation ==
    [][(/\ r_pc = "loop"
        /\ to_scp # <<>>
        /\ Head(to_scp).type = "AbortRQ"
        /\ to_scp' = Tail(to_scp))
       => r_pc' = "closed" /\ to_scu' = to_scu]_vars

\* the n-th P-DATA-TF the Receiver read carried a PDV of this kind on
\* context pc_id
ReadOn(n, pc_id, value_type) ==
    \E j \in DOMAIN responses :
        /\ responses[j].file = n
        /\ responses[j].presentation_context_id = pc_id
        /\ responses[j].value_type = value_type

\* .. a Data PDV with is_last set
ReadFinalOn(n, pc_id) ==
    \E j \in DOMAIN responses :
        /\ responses[j].file = n
        /\ responses[j].presentation_context_id = pc_id
        /\ responses[j].value_type = "Data"
        /\ responses[j].is_last

\* C32: a file written on a final Data PDV holds the Data PDVs of one
\* message only: no Command PDV arrived on its context between the first
\* and the last of its chunks.
C32_OneMessagePerFile ==
    \A i \in DOMAIN saved :
        saved[i].complete =>
            \A n \in 1..MaxPdus :
                (saved[i].data[1] < n /\ n < saved[i].data[Len(saved[i].data)])
                => ~ReadOn(n, saved[i].pc_id, "Command")

\* C33: a file written on a final Data PDV of context c holds, in arrival
\* order, every Data PDV that arrived on c since the final Data PDV before
\* it (or since the start), and nothing that arrived on another context.
C33_PerContextOrder ==
    \A i \in DOMAIN saved :
        saved[i].complete =>
            LET chunks == saved[i].data
                pc_id == saved[i].pc_id
            IN  /\ \A k \in DOMAIN chunks : ReadOn(chunks[k], pc_id, "Data")
                /\ ReadFinalOn(chunks[Len(chunks)], pc_id)
                /\ \A k \in 1..(Len(chunks) - 1) :
                      /\ chunks[k] < chunks[k + 1]
                      /\ ~ReadFinalOn(chunks[k], pc_id)
                      /\ \A n \in (chunks[k] + 1)..(chunks[k + 1] - 1) :
                            ~ReadOn(n, pc_id, "Data")
                /\ \A n \in 1..(chunks[1] - 1) :
                      (ReadOn(n, pc_id, "Data") /\ ~ReadFinalOn(n, pc_id))
                      => \E m \in (n + 1)..(chunks[1] - 1) :
                            ReadOn(m, pc_id, "Data")

\* a dataset of two chunks was written, a Data PDV of another context
\* having arrived between the two
C33_Witness ==
    \E i \in DOMAIN saved :
        /\ saved[i].complete
        /\ Len(saved[i].data) >= 2
        /\ \E n \in 1..MaxPdus, pc_id \in ScuContexts :
              /\ pc_id # saved[i].pc_id
              /\ saved[i].data[1] < n /\ n < saved[i].data[2]
              /\ ReadOn(n, pc_id, "Data")

\* C34: every message the Sender has sent in full went out on one context,
\* its Command PDV first, and includes at least one Data PDV, the last of
\* them final, whatever the length of the dataset (0 included).
C34_MessageHasData ==
    /\ cur.sent > 0 => cur.pc_id = presentation_context_id
    /\ \A i \in DOMAIN outcomes :
          outcomes[i].ok
          => /\ outcomes[i].rec.sent >= 2
             /\ outcomes[i].rec.final_sent

\* C35: every Data PDV the Sender has written has a payload of at most
\* min(peerMaxPdu, max_pdu_length) - 12 bytes, whatever maximum the acceptor
\* announced.
C35_FitsPeerMaxPdu ==
    \A k \in DOMAIN x_emitted :
        x_emitted[k] <= Min(x_peer_max, max_pdu_length) - 12

\* C36: for a context whose abstract syntax is supported, the reply names
\* the first proposed transfer syntax that is in the supported set, or
\* Explicit VR Little Endian when both it and Implicit VR Little Endian
\* were proposed; when no proposed syntax is supported the result is 4.
C36_FirstSupportedSyntax ==
    (n_stage = "replied" /\ IsSupported(classes, n_pc[1].abstract_syntax)) =>
        LET tss == n_pc[1].transfer_syntaxes
            supported ==
                {i \in DOMAIN tss :
                    \E j \in DOMAIN DefaultTransferSyntaxes :
                        tss[i] = DefaultTransferSyntaxes[j]}
            first == CHOOSE i \in supported : \A h \in supported : i <= h
            both == \A uid \in {"1.2.840.10008.1.2.1", "1.2.840.10008.1.2"} :
                        \E i \in DOMAIN tss : tss[i] = uid
        IN  IF supported = {}
            THEN n_pc[1].result = 4
            ELSE /\ n_pc[1].result = 0
                 /\ Len(n_reply.items) = 1
                 /\ n_reply.items[1].transfer_syntax =
                        IF both THEN <<"1.2.840.10008.1.2.1">>
                        ELSE <<tss[first]>>

\* the UID of the input set that a sub-item's value is a padded form of
StripPadding(uid) ==
    CHOOSE u \in WireAbstractSyntaxes \cup WireTransferSyntaxes :
        /\ \E p \in WirePaddings : uid = u \o p
        /\ \A v \in WireAbstractSyntaxes \cup WireTransferSyntaxes :
              \A p \in WirePaddings \ {""} : u # v \o p

\* C37: a presentation-context item whose UIDs arrive padded with a
\* trailing NUL or space gets the result that the item with the bare UIDs
\* gets.
C37_PaddingStripped ==
    n_stage \in {"evaluated", "replied"} =>
        n_pc[1].result =
            EvaluatePresentationContext(
                [n_pc[1] EXCEPT
                    !.abstract_syntax = StripPadding(@),
                    !.transfer_syntaxes =
                        [i \in DOMAIN @ |-> StripPadding(@[i])]])

\* C38: every PDU the acceptor writes is one type byte, one zero byte, a
\* four-byte big-endian length and exactly that many bytes of payload: a
\* reader that takes six bytes and then as many as the length field says
\* has read the PDU, no more and no less.
C38_FramedPdu ==
    w_op # "none" =>
        /\ Len(w_pdu) >= 6
        /\ w_pdu[1] = (CASE w_op = "accept" -> 2 [] w_op = "reject" -> 3
                         [] OTHER -> 6)
        /\ w_pdu[2] = 0
        /\ Len(w_pdu) = 6 + U32FromBe(SubSeq(w_pdu, 3, 6))

\* C39: whatever bytes arrive as the payload of an A-ASSOCIATE-RQ, items
\* and sub-items cut short or with a length that overruns included, the
\* parser ends with a parsed request or an error result: no index or slice
\* leaves the payload, and the handler does not panic.
C39_ParserTotal ==
    p_stage = "parsed" => p_outcome \in {"Ok", "Err"}

\* C40: on an association the k-th file is sent with Message ID k, however
\* many files the association carries: the loop does not stop short of a
\* file, and the id handed to the last send is the number of files handed
\* on so far.
C40_MessageIdIsFileNumber ==
    /\ k_pc # "panicked"
    /\ k_pc \in {"loop", "done"} => k_message_id = k_idx

====
